---- MODULE Spec2Model ----
(***************************************************************************)
(* The corruption engine of gecko (src/gecko/corruptor.py): the corruption *)
(* functions, each a transform of a batch of strings (a pandas Series),    *)
(* and corrupt_dataframe, which applies them to the columns of a table.    *)
(*                                                                         *)
(* A string is a sequence of one-character strings.  A Series is a record  *)
(* [index, data]: the row identities and the values, in row order.  A      *)
(* missing value is NaN.  A value drawn from the random source is an input *)
(* of the action that draws it: rng.random() is k / RngDen with k in       *)
(* 0 .. RngDen - 1, rng.choice(a) is an element of a.                      *)
(***************************************************************************)
EXTENDS Integers, Sequences, FiniteSets, TLC

VARIABLES
    pc,          \* where the call in progress stands
    func,        \* the corruption function that was constructed and called
    srs_in0,     \* contents of the caller's batch when the call was made
    srs_in,      \* contents of the caller's batch now
    srs_out,     \* the batch the call works on and returns
    err,         \* the error the call raised, NoError if none
    ph,          \* with_phonetic_replacement_table._corrupt: its locals
    df_in0,      \* corrupt_dataframe: the caller's table when the call was made
    df_in,       \* corrupt_dataframe: the caller's table now
    df_out,      \* corrupt_dataframe: the table being built
    orch,        \* corrupt_dataframe: its locals
    rerun,       \* the result of a second, equal call
    rt           \* locals of a call of the replacement table function in progress

vars ==
    <<pc, func, srs_in0, srs_in, srs_out, err, ph, df_in0, df_in, df_out, orch, rerun, rt>>

(***************************************************************************)
(* Bounds and input sets                                                   *)
(***************************************************************************)
MaxLen == 2

Alphabet == {"a", "b"}

\* rng.random() returns k / RngDen; RngDen > MaxLen makes floor(m * r) reach
\* every index of 0 .. m - 1 for every m <= MaxLen + 1
RngDen == MaxLen + 1

RngVals == 0 .. (RngDen - 1)

RECURSIVE StrsUpTo(_, _)
StrsUpTo(A, n) ==
    IF n = 0 THEN {<< >>}
    ELSE LET prev == StrsUpTo(A, n - 1)
         IN  prev \cup {Append(s, c) : s \in {t \in prev : Len(t) = n - 1}, c \in A}

Strings == StrsUpTo(Alphabet, MaxLen)

\* the row identities of the batches: no row, the default index of one row, and
\* the index of two rows selected from a longer batch
Indexes == {<< >>, <<0>>, <<1, 3>>}

NaN == <<"NaN">>

NoError == "none"

Series(index, data) == [index |-> index, data |-> data]

EmptySeries == Series(<< >>, << >>)

BatchesOver(S) ==
    UNION {{Series(ix, d) : d \in [1 .. Len(ix) -> S]} : ix \in Indexes}

Batches == BatchesOver(Strings)

(***************************************************************************)
(* pandas and Python primitives, as the code uses them                     *)
(***************************************************************************)
Size(srs) == Len(srs.index)

Rows(srs) == 1 .. Len(srs.index)

\* s[i:j] of Python, 0-based, for 0 <= i
StrSlice(s, i, j) ==
    LET hi == IF j > Len(s) THEN Len(s) ELSE j
    IN  IF i >= hi THEN << >> ELSE SubSeq(s, i + 1, hi)

\* s[i:]
StrFrom(s, i) == StrSlice(s, i, Len(s))

\* Series.str[i]: the character at i, NaN past the end
StrGet(s, i) == IF i < Len(s) THEN <<s[i + 1]>> ELSE NaN

\* str + str of pandas: NaN if either side is
StrCat(s, t) == IF s = NaN \/ t = NaN THEN NaN ELSE s \o t

RECURSIVE KeepFrom(_, _, _)
KeepFrom(s, mask, i) ==
    IF i > Len(s) THEN << >>
    ELSE (IF mask[i] THEN <<s[i]>> ELSE << >>) \o KeepFrom(s, mask, i + 1)

\* srs[mask]: the rows the boolean mask selects, as a new object
SeriesMask(srs, mask) ==
    Series(KeepFrom(srs.index, mask, 1), KeepFrom(srs.data, mask, 1))

MaskSum(mask) == Cardinality({p \in DOMAIN mask : mask[p]})

HasLabel(srs, label) == \E p \in Rows(srs) : srs.index[p] = label

AtLabel(srs, label) ==
    IF HasLabel(srs, label)
    THEN srs.data[CHOOSE p \in Rows(srs) : srs.index[p] = label]
    ELSE NaN

\* srs[mask] = other: the selected rows take other's value of the same label
SeriesSetMask(srs, mask, other) ==
    Series(srs.index,
           [p \in Rows(srs) |->
               IF mask[p] THEN AtLabel(other, srs.index[p]) ELSE srs.data[p]])

\* srs[mask] = value
SeriesSetMaskValue(srs, mask, value) ==
    Series(srs.index, [p \in Rows(srs) |-> IF mask[p] THEN value ELSE srs.data[p]])

\* srs.update(other): the non-NaN values of other, aligned on the label
SeriesUpdate(srs, other) ==
    Series(srs.index,
           [p \in Rows(srs) |->
               IF AtLabel(other, srs.index[p]) # NaN
               THEN AtLabel(other, srs.index[p])
               ELSE srs.data[p]])

\* Series.str[i:j]
SeriesStrSlice(srs, i, j) ==
    Series(srs.index, [p \in Rows(srs) |-> StrSlice(srs.data[p], i, j)])

\* Series.str[i]
SeriesStrGet(srs, i) == Series(srs.index, [p \in Rows(srs) |-> StrGet(srs.data[p], i)])

\* Series.str[i:]
SeriesStrFrom(srs, i) == Series(srs.index, [p \in Rows(srs) |-> StrFrom(srs.data[p], i)])

RECURSIVE UniqueFrom(_, _, _)
UniqueFrom(s, i, seen) ==
    IF i > Len(s) THEN << >>
    ELSE IF s[i] \in seen THEN UniqueFrom(s, i + 1, seen)
    ELSE <<s[i]>> \o UniqueFrom(s, i + 1, seen \cup {s[i]})

\* Series.unique(): the distinct values in order of first appearance
Unique(s) == UniqueFrom(s, 1, {})

Elems(s) == {s[i] : i \in DOMAIN s}

\* np.floor(m * r) for r = k / RngDen
FloorMul(m, k) == (m * k) \div RngDen

(***************************************************************************)
(* Objects.  The caller's batch is the object InObj; a call that copies    *)
(* works on another object, and what it writes there leaves InObj alone.   *)
(* A call returns [obj, srs]: the object it returns and that object's      *)
(* contents, i.e. everything the call wrote to it.                         *)
(***************************************************************************)
InObj == "srs_in"

NewObj == "copy"

SeriesCopyAlias(obj) == obj

\* srs.copy(): a new object
SeriesCopy(obj) == NewObj

Returned(obj, srs) == [obj |-> obj, srs |-> srs, err |-> NoError]

Raised(e) == [obj |-> NewObj, srs |-> EmptySeries, err |-> e]

(***************************************************************************)
(* with_noop                                                               *)
(***************************************************************************)
with_noop_corrupt(srs_in_) == Returned(InObj, srs_in_)

(***************************************************************************)
(* with_missing_value                                                      *)
(***************************************************************************)
\* a series built without index = str_in_srs.index: the default index
RangeIndexFrom(index) == [p \in 1 .. Len(index) |-> p - 1]

\* the index the replacement series is built with
corrupt_all_index(index) == index

corrupt_all_from_value(value, str_in_srs) ==
    Returned(NewObj,
             Series(corrupt_all_index(str_in_srs.index),
                    [p \in Rows(str_in_srs) |-> value]))

corrupt_only_empty_from_value(value, str_in_srs) ==
    LET obj == SeriesCopy(InObj)
        mask == [p \in Rows(str_in_srs) |-> str_in_srs.data[p] = << >>]
    IN  Returned(obj, SeriesSetMaskValue(str_in_srs, mask, value))

Whitespace == {" "}

RECURSIVE LStrip(_)
LStrip(s) == IF s # << >> /\ Head(s) \in Whitespace THEN LStrip(Tail(s)) ELSE s

RECURSIVE RStrip(_)
RStrip(s) ==
    IF s # << >> /\ s[Len(s)] \in Whitespace
    THEN RStrip(SubSeq(s, 1, Len(s) - 1))
    ELSE s

\* the string as it is, with its whitespace
StripNothing(s) == s

\* str.strip()
Strip(s) == RStrip(LStrip(s))

corrupt_only_blank_from_value(value, str_in_srs) ==
    LET obj == SeriesCopy(InObj)
        mask == [p \in Rows(str_in_srs) |-> Strip(str_in_srs.data[p]) = << >>]
    IN  Returned(obj, SeriesSetMaskValue(str_in_srs, mask, value))

Strategies == {"all", "blank", "empty"}

with_missing_value_corrupt(value, strategy, str_in_srs) ==
    CASE strategy = "all" -> corrupt_all_from_value(value, str_in_srs)
      [] strategy = "blank" -> corrupt_only_blank_from_value(value, str_in_srs)
      [] strategy = "empty" -> corrupt_only_empty_from_value(value, str_in_srs)

(***************************************************************************)
(* Elementary edit operations                                              *)
(***************************************************************************)
\* a + b of two Series of strings, aligned on the label
SeriesCat(a, b) ==
    Series(a.index, [q \in Rows(a) |-> StrCat(a.data[q], AtLabel(b, a.index[q]))])

StrLens(srs) == [p \in Rows(srs) |-> Len(srs.data[p])]

\* rng.choice(a, size = n) raises ValueError when a is empty and n is not 0
ChoiceValueError == "ValueError: a cannot be empty unless no samples are taken"

ChoiceRaises(a, n) == Len(a) = 0 /\ n # 0

\* the character written over the one at i instead of before it
insert_overwrite(sel, chars, i) ==
    SeriesCat(SeriesCat(SeriesStrSlice(sel, 0, i), chars), SeriesStrFrom(sel, i + 1))

\* str[:i] + srs_rand_chars + str[i:]
insert_splice(sel, chars, i) ==
    SeriesCat(SeriesCat(SeriesStrSlice(sel, 0, i), chars), SeriesStrFrom(sel, i))

RECURSIVE insert_loop(_, _, _, _)
insert_loop(srs_str_out, arr_rng_insert_indices, srs_rand_chars, arr_uniq_idx) ==
    IF arr_uniq_idx = << >> THEN srs_str_out
    ELSE LET i == Head(arr_uniq_idx)
             srs_idx_mask ==
                 [p \in Rows(srs_str_out) |-> arr_rng_insert_indices[p] = i]
             sel == SeriesMask(srs_str_out, srs_idx_mask)
             new == insert_splice(sel, SeriesMask(srs_rand_chars, srs_idx_mask), i)
         IN  insert_loop(SeriesSetMask(srs_str_out, srs_idx_mask, new),
                         arr_rng_insert_indices, srs_rand_chars, Tail(arr_uniq_idx))

\* arr_rng_vals: rng.random(size = str_count); rand_chars: rng.choice(list(charset),
\* size = str_count)
with_insert_corrupt(charset, srs_str_in, arr_rng_vals, rand_chars) ==
    LET obj == SeriesCopy(InObj)
        srs_str_out_len == StrLens(srs_str_in)
        arr_rng_insert_indices ==
            [p \in Rows(srs_str_in) |->
                FloorMul(srs_str_out_len[p] + 1, arr_rng_vals[p])]
        srs_rand_chars ==
            Series(srs_str_in.index, [p \in Rows(srs_str_in) |-> <<rand_chars[p]>>])
        arr_uniq_idx == Unique(arr_rng_insert_indices)
    IN  IF ChoiceRaises(charset, Size(srs_str_in)) THEN Raised(ChoiceValueError)
        ELSE Returned(obj, insert_loop(srs_str_in, arr_rng_insert_indices,
                                       srs_rand_chars, arr_uniq_idx))

\* the rows of at least min_len characters
MinLenMask(srs, min_len) == [p \in Rows(srs) |-> Len(srs.data[p]) >= min_len]

\* str.slice_replace(i, i + 2, "")
SliceDeleteTwo(s, i) == StrSlice(s, 0, i) \o StrFrom(s, i + 2)

\* str.slice_replace(i, i + 1, "")
SliceDelete(s, i) == StrSlice(s, 0, i) \o StrFrom(s, i + 1)

SeriesSliceDelete(srs, i) ==
    Series(srs.index, [p \in Rows(srs) |-> SliceDelete(srs.data[p], i)])

RECURSIVE delete_loop(_, _, _, _)
delete_loop(srs_str_out, srs_str_out_min_len, arr_rng_delete_indices, arr_uniq_idx) ==
    IF arr_uniq_idx = << >> THEN srs_str_out
    ELSE LET i == Head(arr_uniq_idx)
             srs_idx_mask ==
                 [q \in Rows(srs_str_out_min_len) |-> arr_rng_delete_indices[q] = i]
             new == SeriesSliceDelete(SeriesMask(srs_str_out_min_len, srs_idx_mask), i)
         IN  delete_loop(SeriesUpdate(srs_str_out, new), srs_str_out_min_len,
                         arr_rng_delete_indices, Tail(arr_uniq_idx))

\* arr_rng_vals: rng.random(size = len(srs_str_out_min_len))
with_delete_corrupt(srs_str_in, arr_rng_vals) ==
    LET srs_str_out_min_len == SeriesMask(srs_str_in, MinLenMask(srs_str_in, 1))
        obj == SeriesCopy(InObj)
        arr_rng_delete_indices ==
            [q \in Rows(srs_str_out_min_len) |->
                FloorMul(Len(srs_str_out_min_len.data[q]), arr_rng_vals[q])]
        arr_uniq_idx == Unique(arr_rng_delete_indices)
    IN  IF Size(srs_str_out_min_len) = 0 THEN Returned(InObj, srs_str_in)
        ELSE Returned(obj, delete_loop(srs_str_in, srs_str_out_min_len,
                                       arr_rng_delete_indices, arr_uniq_idx))

\* the swap with the rest of the string taken from i + 1
transpose_swap_repeating(srs_masked, i) ==
    SeriesCat(SeriesCat(SeriesCat(SeriesStrSlice(srs_masked, 0, i),
                                  SeriesStrGet(srs_masked, i + 1)),
                        SeriesStrGet(srs_masked, i)),
              SeriesStrFrom(srs_masked, i + 1))

\* str[:i] + str[i + 1] + str[i] + str[i + 2:]
transpose_swap(srs_masked, i) ==
    SeriesCat(SeriesCat(SeriesCat(SeriesStrSlice(srs_masked, 0, i),
                                  SeriesStrGet(srs_masked, i + 1)),
                        SeriesStrGet(srs_masked, i)),
              SeriesStrFrom(srs_masked, i + 2))

RECURSIVE transpose_loop(_, _, _, _)
transpose_loop(srs_str_out, srs_str_out_min_len, arr_rng_transpose_indices, arr_uniq_idx) ==
    IF arr_uniq_idx = << >> THEN srs_str_out
    ELSE LET i == Head(arr_uniq_idx)
             srs_idx_mask ==
                 [q \in Rows(srs_str_out_min_len) |-> arr_rng_transpose_indices[q] = i]
             srs_masked == SeriesMask(srs_str_out_min_len, srs_idx_mask)
             new == transpose_swap(srs_masked, i)
         IN  transpose_loop(SeriesUpdate(srs_str_out, new), srs_str_out_min_len,
                            arr_rng_transpose_indices, Tail(arr_uniq_idx))

\* arr_rng_vals: rng.random(size = len(srs_str_out_min_len))
with_transpose_corrupt(srs_str_in, arr_rng_vals) ==
    LET srs_str_out_min_len == SeriesMask(srs_str_in, MinLenMask(srs_str_in, 2))
        obj == SeriesCopy(InObj)
        arr_rng_transpose_indices ==
            [q \in Rows(srs_str_out_min_len) |->
                FloorMul(Len(srs_str_out_min_len.data[q]) - 1, arr_rng_vals[q])]
        arr_uniq_idx == Unique(arr_rng_transpose_indices)
    IN  IF Size(srs_str_out_min_len) = 0 THEN Returned(InObj, srs_str_in)
        ELSE Returned(obj, transpose_loop(srs_str_in, srs_str_out_min_len,
                                          arr_rng_transpose_indices, arr_uniq_idx))

\* the character written before the one at i instead of over it
substitute_inserting(srs_masked, chars, i) ==
    SeriesCat(SeriesCat(SeriesStrSlice(srs_masked, 0, i), chars),
              SeriesStrFrom(srs_masked, i))

\* str[:i] + srs_rand_chars + str[i + 1:]
substitute_splice(srs_masked, chars, i) ==
    SeriesCat(SeriesCat(SeriesStrSlice(srs_masked, 0, i), chars),
              SeriesStrFrom(srs_masked, i + 1))

RECURSIVE substitute_loop(_, _, _, _, _)
substitute_loop(srs_str_out, srs_str_out_min_len, arr_rng_sub_indices, srs_rand_chars, arr_uniq_idx) ==
    IF arr_uniq_idx = << >> THEN srs_str_out
    ELSE LET i == Head(arr_uniq_idx)
             srs_idx_mask ==
                 [q \in Rows(srs_str_out_min_len) |-> arr_rng_sub_indices[q] = i]
             srs_masked == SeriesMask(srs_str_out_min_len, srs_idx_mask)
             new == substitute_splice(srs_masked,
                                      SeriesMask(srs_rand_chars, srs_idx_mask), i)
         IN  substitute_loop(SeriesUpdate(srs_str_out, new), srs_str_out_min_len,
                             arr_rng_sub_indices, srs_rand_chars, Tail(arr_uniq_idx))

\* arr_rng_vals: rng.random(size = str_count); rand_chars: rng.choice(list(charset),
\* size = str_count), str_count the number of rows of at least one character
with_substitute_corrupt(charset, srs_str_in, arr_rng_vals, rand_chars) ==
    LET srs_str_out_min_len == SeriesMask(srs_str_in, MinLenMask(srs_str_in, 1))
        obj == SeriesCopy(InObj)
        str_count == Size(srs_str_out_min_len)
        arr_rng_sub_indices ==
            [q \in Rows(srs_str_out_min_len) |->
                FloorMul(Len(srs_str_out_min_len.data[q]), arr_rng_vals[q])]
        srs_rand_chars ==
            Series(srs_str_out_min_len.index,
                   [q \in Rows(srs_str_out_min_len) |-> <<rand_chars[q]>>])
        arr_uniq_idx == Unique(arr_rng_sub_indices)
    IN  IF str_count = 0 THEN Returned(InObj, srs_str_in)
        ELSE IF ChoiceRaises(charset, str_count) THEN Raised(ChoiceValueError)
        ELSE Returned(obj, substitute_loop(srs_str_in, srs_str_out_min_len,
                                           arr_rng_sub_indices, srs_rand_chars,
                                           arr_uniq_idx))

\* the draws a call makes: n values of rng.random() and n of rng.choice(charset)
RandomDraws(n) == [1 .. n -> RngVals]

ChoiceDraws(a, n) == IF ChoiceRaises(a, n) THEN {<< >>} ELSE [1 .. n -> Elems(a)]

Charsets == {<<"x">>, <<"a", "b">>}

(***************************************************************************)
(* Probabilities are multiples of 1 / ProbDen.                             *)
(* rng.choice(a, p = p) raises ValueError unless every weight is           *)
(* non-negative and the weights sum to 1; it never draws an element of     *)
(* weight 0.                                                               *)
(***************************************************************************)
ProbDen == 4

RECURSIVE SeqSum(_)
SeqSum(s) == IF s = << >> THEN 0 ELSE Head(s) + SeqSum(Tail(s))

\* a draw that raises only for probabilities that sum to more than 1
ChoicePRaisesAboveOne(p_values, one) ==
    \/ \E i \in DOMAIN p_values : p_values[i] < 0
    \/ SeqSum(p_values) > one

\* rng.choice(a, p = p_values) raises ValueError unless the probabilities are
\* non-negative and sum to 1; one is the integer that stands for 1.0
ChoicePRaises(p_values, one) ==
    \/ \E i \in DOMAIN p_values : p_values[i] < 0
    \/ SeqSum(p_values) # one

\* the positions rng.choice(a, p = p_values) can return
ChoicePSupport(p_values) == {i \in DOMAIN p_values : p_values[i] > 0}

(***************************************************************************)
(* with_edit                                                               *)
(***************************************************************************)
edit_ops == <<"ins", "del", "sub", "trs">>

check_probability_in_bounds_raises(p) == p < 0 \/ p > ProbDen

\* the error with_edit raises for the probabilities edit_ops_prob, NoError if
\* it returns a function
with_edit_error(edit_ops_prob) ==
    IF \E i \in DOMAIN edit_ops_prob :
           check_probability_in_bounds_raises(edit_ops_prob[i])
    THEN "ValueError: probability is out of range, must be between 0 and 1"
    ELSE IF ChoicePRaises(edit_ops_prob, ProbDen)
    THEN "ValueError: probabilities must sum up to 1.0"
    ELSE NoError

\* the rows of insertion and of deletion taken for each other
OpMaskCrossed(str_in_edit_ops, op) ==
    [p \in DOMAIN str_in_edit_ops |->
        str_in_edit_ops[p] = (CASE op = "ins" -> "del" [] op = "del" -> "ins"
                                [] OTHER -> op)]

\* str_in_edit_ops == op
OpMask(str_in_edit_ops, op) ==
    [p \in DOMAIN str_in_edit_ops |-> str_in_edit_ops[p] = op]

\* srs_out[msk] = corr(srs_out[msk]) when the mask selects a row; r is the call's
\* result
edit_apply(srs_out_, msk, r) ==
    IF MaskSum(msk) # 0 THEN SeriesSetMask(srs_out_, msk, r.srs) ELSE srs_out_

\* str_in_edit_ops: rng.choice(edit_ops, size = len(srs_in), p = edit_ops_prob);
\* d: the draws of the four elementary functions, each from its own generator
with_edit_corrupt_list(charset, srs_in_, str_in_edit_ops, d) ==
    LET obj == SeriesCopy(InObj)
        msk_ins == OpMask(str_in_edit_ops, "ins")
        msk_del == OpMask(str_in_edit_ops, "del")
        msk_sub == OpMask(str_in_edit_ops, "sub")
        msk_trs == OpMask(str_in_edit_ops, "trs")
        out_ins == edit_apply(srs_in_, msk_ins,
                       with_insert_corrupt(charset, SeriesMask(srs_in_, msk_ins),
                                           d.ins_vals, d.ins_chars))
        out_del == edit_apply(out_ins, msk_del,
                       with_delete_corrupt(SeriesMask(out_ins, msk_del), d.del_vals))
        out_sub == edit_apply(out_del, msk_sub,
                       with_substitute_corrupt(charset, SeriesMask(out_del, msk_sub),
                                               d.sub_vals, d.sub_chars))
        out_trs == edit_apply(out_sub, msk_trs,
                       with_transpose_corrupt(SeriesMask(out_sub, msk_trs), d.trs_vals))
    IN  IF \/ MaskSum(msk_ins) # 0 /\ ChoiceRaises(charset, MaskSum(msk_ins))
           \/ MaskSum(msk_sub) # 0 /\ ChoiceRaises(charset, MaskSum(msk_sub))
        THEN Raised(ChoiceValueError)
        ELSE Returned(obj, out_trs)

\* the draws of the elementary functions for the rows each is given
EditDraws(charset, srs, ops) ==
    LET n_ins == MaskSum(OpMask(ops, "ins"))
        n_del == MaskSum(MinLenMask(SeriesMask(srs, OpMask(ops, "del")), 1))
        n_sub == MaskSum(MinLenMask(SeriesMask(srs, OpMask(ops, "sub")), 1))
        n_trs == MaskSum(MinLenMask(SeriesMask(srs, OpMask(ops, "trs")), 2))
    IN  [ins_vals : RandomDraws(n_ins), ins_chars : ChoiceDraws(charset, n_ins),
         del_vals : RandomDraws(n_del),
         sub_vals : RandomDraws(n_sub), sub_chars : ChoiceDraws(charset, n_sub),
         trs_vals : RandomDraws(n_trs)]

\* the probabilities the edit functions are constructed with: all four operations,
\* and deletion and transposition alone
EditProbs == {<<ProbDen - 3, 1, 1, 1>>, <<0, 1, 0, ProbDen - 1>>}

EditCharsets == {<<"x">>}

\* the probabilities with_edit is asked to construct a function with: every
\* multiple of 1 / ProbDen from just below 0 to just above 1, for each operation
EditProbsTried == [1 .. Len(edit_ops) -> (0 - 1) .. (ProbDen + 1)]

(***************************************************************************)
(* with_categorical_values                                                 *)
(***************************************************************************)
\* srs[mask] = arr: the rows the mask selects take the values of arr in row order
SeriesSetMaskArray(srs, mask, arr) ==
    Series(srs.index,
           [p \in Rows(srs) |->
               IF mask[p]
               THEN arr[MaskSum([q \in 1 .. p |-> mask[q]])]
               ELSE srs.data[p]])

\* the string is the pattern, character by character
StrEquals(s, pat) == s = pat

\* Series.str.fullmatch(pat): pat is read as a regular expression, so "." in it
\* stands for any one character (the only metacharacter the categories here have)
StrFullMatch(s, pat) ==
    /\ s # NaN
    /\ Len(s) = Len(pat)
    /\ \A j \in DOMAIN pat : pat[j] = "." \/ pat[j] = s[j]

\* np.setdiff1d(unique_values, unique_val), as a set
SetDiff1d(unique_values, unique_val) == Elems(unique_values) \ {unique_val}

\* the loop over unique_values; row_draws[k][p] is the value rng.choice draws for
\* row p when the loop is at the k-th category
RECURSIVE categorical_loop(_, _, _, _, _)
categorical_loop(unique_values, srs_in_, srs_in_update, todo, row_draws) ==
    IF todo = << >> THEN [srs |-> srs_in_update, err |-> NoError]
    ELSE LET unique_val == Head(todo)
             k == Len(unique_values) - Len(todo) + 1
             unique_vals_without_current == SetDiff1d(unique_values, unique_val)
             srs_in_matching_val ==
                 [p \in Rows(srs_in_) |-> StrFullMatch(srs_in_.data[p], unique_val)]
             unique_val_total == MaskSum(srs_in_matching_val)
             new_unique_vals == KeepFrom(row_draws[k], srs_in_matching_val, 1)
         IN  IF unique_val_total = 0
             THEN categorical_loop(unique_values, srs_in_, srs_in_update, Tail(todo),
                                   row_draws)
             ELSE IF unique_vals_without_current = {}
             THEN [srs |-> srs_in_update, err |-> ChoiceValueError]
             ELSE categorical_loop(unique_values, srs_in_,
                      SeriesSetMaskArray(srs_in_update, srs_in_matching_val,
                                         new_unique_vals),
                      Tail(todo), row_draws)

with_categorical_values_corrupt_list(unique_values, srs_in_, row_draws) ==
    LET srs_in_update == Series(srs_in_.index, [p \in Rows(srs_in_) |-> NaN])
        looped == categorical_loop(unique_values, srs_in_, srs_in_update,
                                   unique_values, row_draws)
        obj == SeriesCopy(InObj)
    IN  IF looped.err # NoError THEN Raised(looped.err)
        ELSE Returned(obj, SeriesUpdate(srs_in_, looped.srs))

\* what rng.choice can draw at each category for each row: another category for
\* a row the category matches, nothing (NaN here) for a row it is not drawn for
CategoricalDraws(unique_values, srs) ==
    {d \in [DOMAIN unique_values -> [Rows(srs) -> Elems(unique_values) \cup {NaN}]] :
        \A k \in DOMAIN unique_values, p \in Rows(srs) :
            IF StrFullMatch(srs.data[p], unique_values[k])
               /\ SetDiff1d(unique_values, unique_values[k]) # {}
            THEN d[k][p] \in SetDiff1d(unique_values, unique_values[k])
            ELSE d[k][p] = NaN}

\* the unique values of the value column: one category, two, three, and two of
\* which one is a full stop
CategoryTables ==
    {<< <<"a">> >>,
     << <<"a">>, <<"b">> >>,
     << <<"b">>, <<"a">>, <<"a", "b">> >>,
     << <<".">>, <<"b">> >>}

(***************************************************************************)
(* with_cldr_keymap_file                                                   *)
(*                                                                         *)
(* A keymap is the decoded content of the CLDR file: max_row, max_col and  *)
(* the map nodes <<row, col, modifier, character>> in document order.      *)
(***************************************************************************)
NoKey == ""

\* charset = None
NoCharset == <<"None">>

\* the characters in code point order
CodePoints == <<"A", "B", "a", "b", "c">>

CodePoint(c) == CHOOSE i \in DOMAIN CodePoints : CodePoints[i] = c

RECURSIVE SortedInsert(_, _)
SortedInsert(sorted, c) ==
    IF sorted = << >> THEN <<c>>
    ELSE IF CodePoint(c) <= CodePoint(Head(sorted)) THEN <<c>> \o sorted
    ELSE <<Head(sorted)>> \o SortedInsert(Tail(sorted), c)

RECURSIVE SortedList(_)
\* sorted(list)
SortedList(list) ==
    IF list = << >> THEN << >> ELSE SortedInsert(SortedList(Tail(list)), Head(list))

\* the elements of a Python set in the order iteration yields them: the order of
\* their hashes, hash_order, which differs from one interpreter run to the next
SetToList(set, hash_order) == SelectSeq(hash_order, LAMBDA c : c \in set)

UnsortedCandidates(set, hash_order) == SetToList(set, hash_order)

\* "".join(sorted(kb_char_candidates))
JoinCandidates(set, hash_order) == SortedList(SetToList(set, hash_order))

\* the positions of kb_map in the order np.nditer visits them
KbPositions(max_row, max_col) ==
    [n \in 1 .. ((max_row + 1) * (max_col + 1) * 2) |->
        <<(n - 1) \div ((max_col + 1) * 2), ((n - 1) \div 2) % (max_col + 1),
          (n - 1) % 2>>]

\* gecko.cldr.get_neighbor_kb_pos_for: the same key under the other modifier, and
\* the keys one step up, down, left and right under the same modifier
get_neighbor_kb_pos_for(kb_pos, max_row, max_col) ==
    {<<kb_pos[1], kb_pos[2], (kb_pos[3] + 1) % 2>>}
        \cup (IF kb_pos[1] > 0 THEN {<<kb_pos[1] - 1, kb_pos[2], kb_pos[3]>>} ELSE {})
        \cup (IF kb_pos[1] < max_row
              THEN {<<kb_pos[1] + 1, kb_pos[2], kb_pos[3]>>} ELSE {})
        \cup (IF kb_pos[2] > 0 THEN {<<kb_pos[1], kb_pos[2] - 1, kb_pos[3]>>} ELSE {})
        \cup (IF kb_pos[2] < max_col
              THEN {<<kb_pos[1], kb_pos[2] + 1, kb_pos[3]>>} ELSE {})

\* no character is kept off the keyboard
NothingSkipped(charset, kb_char) == FALSE

\* charset is not None and kb_char not in charset
SkippedByCharset(charset, kb_char) ==
    charset # NoCharset /\ kb_char \notin Elems(charset)

\* kb_map after the map nodes: the last node of a position that passes the charset
RECURSIVE kb_map_fill(_, _, _)
kb_map_fill(kb_map, nodes, charset) ==
    IF nodes = << >> THEN kb_map
    ELSE LET node == Head(nodes)
             kb_char == node[4]
         IN  IF SkippedByCharset(charset, kb_char)
             THEN kb_map_fill(kb_map, Tail(nodes), charset)
             ELSE kb_map_fill([kb_map EXCEPT ![<<node[1], node[2], node[3]>>] = kb_char],
                              Tail(nodes), charset)

kb_map_of(keymap, charset) ==
    kb_map_fill([pos \in Elems(KbPositions(keymap.max_row, keymap.max_col)) |-> NoKey],
                keymap.nodes, charset)

\* kb_char_to_candidates_dict after the positions todo; a character without an
\* entry maps to the empty string here
RECURSIVE candidates_fill(_, _, _, _, _)
candidates_fill(dict, kb_map, keymap, todo, hash_order) ==
    IF todo = << >> THEN dict
    ELSE LET kb_pos == Head(todo)
             kb_char == kb_map[kb_pos]
             kb_char_candidates ==
                 {kb_map[n] : n \in get_neighbor_kb_pos_for(kb_pos, keymap.max_row,
                                                            keymap.max_col)}
                     \ {NoKey, kb_char}
         IN  IF kb_char = NoKey \/ kb_char_candidates = {}
             THEN candidates_fill(dict, kb_map, keymap, Tail(todo), hash_order)
             ELSE candidates_fill(
                      [dict EXCEPT ![kb_char] =
                          JoinCandidates(kb_char_candidates, hash_order)],
                      kb_map, keymap, Tail(todo), hash_order)

\* the construction: kb_char_to_candidates_dict
with_cldr_keymap_file(keymap, charset, hash_order) ==
    candidates_fill([c \in Elems(CodePoints) |-> << >>], kb_map_of(keymap, charset),
                    keymap, KbPositions(keymap.max_row, keymap.max_col), hash_order)

\* char in kb_char_to_candidates_dict
HasCandidates(dict, char) ==
    char # NaN /\ char[1] \in DOMAIN dict /\ dict[char[1]] # << >>

\* every character of the keyboard, whatever key it is on
AllKeyboardChars(dict, char) == CodePoints

\* char_candidates = kb_char_to_candidates_dict[char]
CharCandidates(dict, char) == dict[char[1]]

\* the loop over arr_uniq_chars: srs_repl_chars after the characters todo;
\* choice_vals[p] decides what rng.choice draws for row p
RECURSIVE repl_chars_loop(_, _, _, _, _)
repl_chars_loop(srs_repl_chars, srs_typo_chars, dict, todo, choice_vals) ==
    IF todo = << >> THEN srs_repl_chars
    ELSE LET char == Head(todo)
             char_candidates == CharCandidates(dict, char)
             char_mask == [p \in Rows(srs_typo_chars) |-> srs_typo_chars.data[p] = char]
             rand_chars ==
                 KeepFrom([p \in Rows(srs_typo_chars) |->
                              <<char_candidates[
                                  FloorMul(Len(char_candidates), choice_vals[p]) + 1]>>],
                          char_mask, 1)
         IN  IF ~HasCandidates(dict, char)
             THEN repl_chars_loop(srs_repl_chars, srs_typo_chars, dict, Tail(todo),
                                  choice_vals)
             ELSE repl_chars_loop(SeriesSetMaskArray(srs_repl_chars, char_mask, rand_chars),
                                  srs_typo_chars, dict, Tail(todo), choice_vals)

\* the replacement put in before the character at i
typo_splice_keeping(srs_masked, chars, i) ==
    SeriesCat(SeriesCat(SeriesStrSlice(srs_masked, 0, i), chars),
              SeriesStrFrom(srs_masked, i))

\* str[:i] + srs_repl_chars + str[i + 1:]
typo_splice(srs_masked, chars, i) ==
    SeriesCat(SeriesCat(SeriesStrSlice(srs_masked, 0, i), chars),
              SeriesStrFrom(srs_masked, i + 1))

RECURSIVE typo_loop(_, _, _, _)
typo_loop(srs_str_out, arr_rng_typo_indices, srs_repl_chars, arr_uniq_idx) ==
    IF arr_uniq_idx = << >> THEN srs_str_out
    ELSE LET i == Head(arr_uniq_idx)
             idx_mask ==
                 [p \in Rows(srs_str_out) |->
                     arr_rng_typo_indices[p] = i /\ srs_repl_chars.data[p] # NaN]
             sel == SeriesMask(srs_str_out, idx_mask)
             new == typo_splice(sel, SeriesMask(srs_repl_chars, idx_mask), i)
         IN  typo_loop(SeriesSetMask(srs_str_out, idx_mask, new),
                       arr_rng_typo_indices, srs_repl_chars, Tail(arr_uniq_idx))

\* arr_rng_vals: rng.random(size = str_count)
with_cldr_keymap_file_corrupt(dict, srs_str_in, arr_rng_vals, choice_vals) ==
    LET obj == SeriesCopy(InObj)
        srs_str_out_len == StrLens(srs_str_in)
        arr_rng_typo_indices ==
            [p \in Rows(srs_str_in) |-> FloorMul(srs_str_out_len[p], arr_rng_vals[p])]
        srs_typo_chars ==
            Series(srs_str_in.index,
                   [p \in Rows(srs_str_in) |->
                       StrGet(srs_str_in.data[p], arr_rng_typo_indices[p])])
        arr_uniq_idx == Unique(arr_rng_typo_indices)
        arr_uniq_chars == Unique(srs_typo_chars.data)
        srs_repl_chars ==
            repl_chars_loop(Series(srs_str_in.index, [p \in Rows(srs_str_in) |-> NaN]),
                            srs_typo_chars, dict, arr_uniq_chars, choice_vals)
    IN  Returned(obj, typo_loop(srs_str_in, arr_rng_typo_indices, srs_repl_chars,
                                arr_uniq_idx))

\* two keys side by side, each with its shift character; and a key whose shift
\* character is its base character, above one of two keys of a second row
Keymaps ==
    {[max_row |-> 0, max_col |-> 1,
      nodes |-> << <<0, 0, 0, "a">>, <<0, 1, 0, "b">>,
                   <<0, 0, 1, "A">>, <<0, 1, 1, "B">> >>],
     [max_row |-> 1, max_col |-> 1,
      nodes |-> << <<0, 0, 0, "a">>, <<1, 0, 0, "b">>, <<1, 1, 0, "c">>,
                   <<0, 0, 1, "a">> >>]}

RECURSIVE Reverse(_)
Reverse(s) == IF s = << >> THEN << >> ELSE Append(Reverse(Tail(s)), Head(s))

\* the hash orders of two interpreter runs
HashOrders == {CodePoints, Reverse(CodePoints)}

KeymapCharsets == {NoCharset, <<"a", "A">>}

\* the functions with_cldr_keymap_file constructs, each with its
\* kb_char_to_candidates_dict
KeymapFunctions ==
    {[keymap |-> keymap, charset |-> charset,
      dict |-> with_cldr_keymap_file(keymap, charset, hash_order)] :
        keymap \in Keymaps, charset \in KeymapCharsets, hash_order \in HashOrders}

\* what decides the draws of rng.choice: a value for each row whose selected
\* character has candidates, none (0 here) for the other rows
KeymapChoiceDraws(dict, srs, arr_rng_vals) ==
    {d \in RandomDraws(Size(srs)) :
        \A p \in Rows(srs) :
            HasCandidates(dict, StrGet(srs.data[p],
                                       FloorMul(Len(srs.data[p]), arr_rng_vals[p])))
                \/ d[p] = 0}

(***************************************************************************)
(* Substring search and replacement.  str.find, str.startswith,            *)
(* str.endswith and str.replace take the pattern as it is written;         *)
(* str.contains reads it as a regular expression.                          *)
(***************************************************************************)
\* whether pat occurs in s at the 0-based index i
OccursAt(s, pat, i) ==
    i >= 0 /\ i + Len(pat) <= Len(s) /\ SubSeq(s, i + 1, i + Len(pat)) = pat

\* str.find(pat): the lowest index pat occurs at, -1 if none
StrFind(s, pat) ==
    IF \E i \in 0 .. Len(s) : OccursAt(s, pat, i)
    THEN CHOOSE i \in 0 .. Len(s) :
             OccursAt(s, pat, i) /\ \A j \in 0 .. (i - 1) : ~OccursAt(s, pat, j)
    ELSE -1

\* pat in s
StrContains(s, pat) == StrFind(s, pat) >= 0

\* Series.str.contains(pat): pat is read as a regular expression, so "." in it
\* stands for any one character (the only metacharacter the sources here have)
StrContainsRegex(s, pat) ==
    \E i \in 0 .. (Len(s) - Len(pat)) :
        \A j \in DOMAIN pat : pat[j] = "." \/ pat[j] = s[i + j]

StrStartsWith(s, pat) == OccursAt(s, pat, 0)

StrEndsWith(s, pat) == OccursAt(s, pat, Len(s) - Len(pat))

\* s with the occurrence of pat at i replaced by repl
ReplaceAt(s, pat, repl, i) == StrSlice(s, 0, i) \o repl \o StrFrom(s, i + Len(pat))

\* the rightmost occurrence replaced
StrReplaceLast(s, pat, repl) ==
    IF StrContains(s, pat)
    THEN ReplaceAt(s, pat, repl,
                   CHOOSE i \in 0 .. Len(s) :
                       OccursAt(s, pat, i)
                           /\ \A j \in (i + 1) .. Len(s) : ~OccursAt(s, pat, j))
    ELSE s

\* Series.str.replace(pat, repl, n = 1): the leftmost occurrence of pat as it is
\* written (regex = False, the default of pandas 2)
StrReplaceFirst(s, pat, repl) ==
    IF StrContains(s, pat) THEN ReplaceAt(s, pat, repl, StrFind(s, pat)) ELSE s

SeriesReplaceFirst(srs, pat, repl) ==
    Series(srs.index, [p \in Rows(srs) |-> StrReplaceFirst(srs.data[p], pat, repl)])

(***************************************************************************)
(* with_replacement_table.  df is the table read from the CSV file: its    *)
(* rows <<source, target>>.                                                *)
(***************************************************************************)
SourceColumn(df) == [i \in DOMAIN df |-> df[i][1]]

\* srs_str_sub_prob before the division: how many of the unique sources each row
\* contains
RECURSIVE replacement_count_loop(_, _, _)
replacement_count_loop(srs_str_sub_prob, srs_str_out, todo) ==
    IF todo = << >> THEN srs_str_sub_prob
    ELSE replacement_count_loop(
             [p \in DOMAIN srs_str_sub_prob |->
                 srs_str_sub_prob[p]
                     + (IF StrContainsRegex(srs_str_out.data[p], Head(todo)) THEN 1 ELSE 0)],
             srs_str_out, Tail(todo))

\* the draw compared with one half, whatever the count
UnderHalf(k, count) == count # 0 /\ k * 2 < RngDen

\* arr_rand_vals < srs_str_sub_prob for the draw k / RngDen and the probability
\* 1 / count, 0 for a count of 0
UnderProb(k, count) == count # 0 /\ k * count < RngDen

\* df[df[source_column] == source][target_column].tolist()
ReplacementOptions(df, source) ==
    LET rows == SelectSeq(df, LAMBDA row : row[1] = source)
    IN  [i \in DOMAIN rows |-> rows[i][2]]

\* the rows marked for source, those marked for an earlier source among them
StringsToReplaceAgain(df_replacement, srs_str_out, counts, source, rand_vals) ==
    [p \in Rows(srs_str_out) |->
        /\ StrContainsRegex(srs_str_out.data[p], source)
        /\ UnderProb(rand_vals[p], counts[p])]

\* the rows the loop marks for source, the j-th unique source
StringsToReplace(df_replacement, srs_str_out, counts, source, rand_vals) ==
    [p \in Rows(srs_str_out) |->
        /\ StrContainsRegex(srs_str_out.data[p], source)
        /\ UnderProb(rand_vals[p], counts[p])
        /\ df_replacement.source[p] = NaN]

\* one pass of the loop over the unique sources: df_replacement after source.
\* rand_vals: rng.random(size = str_count) of this pass; target_draws[p]: the
\* position in replacement_options rng.choice draws for row p
replacement_select_step(df_replacement, df, srs_str_out, counts, source, rand_vals, target_draws) ==
    LET mask_strings_to_replace ==
            StringsToReplace(df_replacement, srs_str_out, counts, source, rand_vals)
        replacement_options == ReplacementOptions(df, source)
    IN  [source |->
             [p \in Rows(srs_str_out) |->
                 IF mask_strings_to_replace[p] THEN source
                 ELSE df_replacement.source[p]],
         target |->
             [p \in Rows(srs_str_out) |->
                 IF ~mask_strings_to_replace[p] THEN df_replacement.target[p]
                 ELSE IF Len(replacement_options) = 1 THEN replacement_options[1]
                 ELSE replacement_options[target_draws[p]]]]

\* the loop over the unique sources: df_replacement after the sources from the
\* j-th on.  arr_rand_vals[j]: rng.random(size = str_count) of the j-th source
RECURSIVE replacement_select_loop(_, _, _, _, _, _, _)
replacement_select_loop(df_replacement, df, srs_str_out, counts, j, arr_rand_vals, target_draws) ==
    LET sources == Unique(SourceColumn(df)) IN
    IF j > Len(sources) THEN df_replacement
    ELSE replacement_select_loop(
             replacement_select_step(df_replacement, df, srs_str_out, counts,
                                     sources[j], arr_rand_vals[j], target_draws),
             df, srs_str_out, counts, j + 1, arr_rand_vals, target_draws)

\* df_replacement when the selection loop is through
replacement_select(df, srs_str_out, arr_rand_vals, target_draws) ==
    replacement_select_loop(
        [source |-> [p \in Rows(srs_str_out) |-> NaN],
         target |-> [p \in Rows(srs_str_out) |-> NaN]],
        df, srs_str_out,
        replacement_count_loop([p \in Rows(srs_str_out) |-> 0], srs_str_out,
                               Unique(SourceColumn(df))),
        1, arr_rand_vals, target_draws)

\* the inner loop: the unique targets of one source
RECURSIVE replacement_apply_targets(_, _, _, _)
replacement_apply_targets(srs_str_out, df_replacement, source, todo) ==
    IF todo = << >> THEN srs_str_out
    ELSE LET target == Head(todo)
             mask == [p \in Rows(srs_str_out) |->
                         df_replacement.source[p] = source
                             /\ df_replacement.target[p] = target]
             new == SeriesReplaceFirst(SeriesMask(srs_str_out, mask), source, target)
         IN  replacement_apply_targets(SeriesSetMask(srs_str_out, mask, new),
                                       df_replacement, source, Tail(todo))

\* the outer loop: the unique sources of df_replacement, NaN skipped
RECURSIVE replacement_apply_loop(_, _, _)
replacement_apply_loop(srs_str_out, df_replacement, todo) ==
    IF todo = << >> THEN srs_str_out
    ELSE LET source == Head(todo)
             of_source == [p \in Rows(srs_str_out) |-> df_replacement.source[p] = source]
             targets == Unique(KeepFrom(df_replacement.target, of_source, 1))
         IN  IF source = NaN
             THEN replacement_apply_loop(srs_str_out, df_replacement, Tail(todo))
             ELSE replacement_apply_loop(
                      replacement_apply_targets(srs_str_out, df_replacement, source,
                                                targets),
                      df_replacement, Tail(todo))

with_replacement_table_corrupt(df, srs_str_in, arr_rand_vals, target_draws) ==
    LET obj == SeriesCopy(InObj)
        df_replacement == replacement_select(df, srs_str_in, arr_rand_vals, target_draws)
    IN  Returned(obj, replacement_apply_loop(srs_str_in, df_replacement,
                                             Unique(df_replacement.source)))

\* one source with one target; a source with two targets and a second source; a
\* source that is part of another; a source and a full stop
ReplacementTables ==
    {<< << <<"a">>, <<"b">> >> >>,
     << << <<"a">>, <<"x">> >>, << <<"a">>, <<"y">> >>, << <<"b">>, <<"a">> >> >>,
     << << <<"a">>, <<"b">> >>, << <<"a", "b">>, <<"x">> >> >>,
     << << <<"a">>, <<"b">> >>, << <<".">>, <<"x">> >> >>}

\* the values of rng.random() that matter: those of the rows that contain the source
ReplacementRandomDraws(df, srs) ==
    LET sources == Unique(SourceColumn(df))
    IN  {v \in [DOMAIN sources -> RandomDraws(Size(srs))] :
            \A j \in DOMAIN sources, p \in Rows(srs) :
                StrContainsRegex(srs.data[p], sources[j]) \/ v[j][p] = 0}

\* the positions rng.choice draws: one for each row marked for a source of several
\* targets, none (1 here) for the other rows
ReplacementTargetDraws(df, srs, arr_rand_vals) ==
    LET marked == replacement_select(df, srs, arr_rand_vals, [p \in Rows(srs) |-> 1])
        OptionCount(p) ==
            IF marked.source[p] = NaN THEN 1
            ELSE Len(ReplacementOptions(df, marked.source[p]))
    IN  {d \in [Rows(srs) -> 1 .. 2] : \A p \in Rows(srs) : d[p] <= OptionCount(p)}

(***************************************************************************)
(* with_phonetic_replacement_table.  A rule is a record of pattern,        *)
(* replacement and flags, the flags a sequence of the characters ^ $ _.    *)
(***************************************************************************)
\* "".join(sorted("^$_"))
all_flags == <<"$", "^", "_">>

\* _validate_flags for a flags cell that holds no unknown flag
validate_flags(flags_str) == IF flags_str = << >> THEN all_flags ELSE flags_str

PhoneticReplacementRule(pattern, replacement, flags_str) ==
    [pattern |-> pattern, replacement |-> replacement,
     flags |-> validate_flags(flags_str)]

InFlags(flag, flags) == \E i \in DOMAIN flags : flags[i] = flag

\* srs_str_flags of one rule: where the first occurrence of the pattern puts each row
rule_str_flags(rule, srs_str_out) ==
    [p \in Rows(srs_str_out) |->
        LET s == srs_str_out.data[p]
            srs_pattern_idx == StrFind(s, rule.pattern)
            pattern_end == srs_pattern_idx + Len(rule.pattern)
        IN  (IF InFlags("^", rule.flags) /\ srs_pattern_idx = 0
             THEN <<"^">> ELSE << >>)
            \o (IF InFlags("$", rule.flags) /\ pattern_end = Len(s)
                THEN <<"$">> ELSE << >>)
            \o (IF InFlags("_", rule.flags) /\ srs_pattern_idx > 0 /\ pattern_end < Len(s)
                THEN <<"_">> ELSE << >>)]

\* rule_to_flag_dict, by the position of the rule in the table
rule_to_flag_dict_of(phonetic_replacement_rules, srs_str_out) ==
    [j \in DOMAIN phonetic_replacement_rules |->
        rule_str_flags(phonetic_replacement_rules[j], srs_str_out)]

\* srs_str_sub_prob before the division: the rules that put a flag on the row
phonetic_rule_count(rule_to_flag_dict, p) ==
    Cardinality({j \in DOMAIN rule_to_flag_dict : rule_to_flag_dict[j][p] # << >>})

\* mask_candidate_rows
CandidateRows(arr_rand_vals, counts, srs_str_flags) ==
    [p \in DOMAIN srs_str_flags |->
        UnderProb(arr_rand_vals[p], counts[p]) /\ srs_str_flags[p] # << >>]

\* mask_current_flag
CurrentFlagMask(flag, rule, srs_str_out) ==
    [p \in Rows(srs_str_out) |->
        LET s == srs_str_out.data[p] IN
        CASE flag = "^" -> StrStartsWith(s, rule.pattern)
          [] flag = "$" -> StrEndsWith(s, rule.pattern)
          [] flag = "_" -> ~StrStartsWith(s, rule.pattern) /\ ~StrEndsWith(s, rule.pattern)]

\* mask_current_candidate_rows without the rows modified before
CurrentCandidateRowsAgain(mask_candidate_rows, mask_current_flag, mask_modified_rows) ==
    [p \in DOMAIN mask_candidate_rows |-> mask_candidate_rows[p] /\ mask_current_flag[p]]

\* mask_current_candidate_rows
CurrentCandidateRows(mask_candidate_rows, mask_current_flag, mask_modified_rows) ==
    [p \in DOMAIN mask_candidate_rows |->
        mask_candidate_rows[p] /\ mask_current_flag[p] /\ ~mask_modified_rows[p]]

\* the occurrences the pattern ^(.+)pattern(.+)$ can match: a character at least
\* before and after
MiddlePositions(s, pattern) ==
    {i \in 1 .. Len(s) : OccursAt(s, pattern, i) /\ i + Len(pattern) < Len(s)}

\* the first occurrence replaced, whatever the flag
phonetic_replace_first(flag, rule, s) ==
    StrReplaceFirst(s, rule.pattern, rule.replacement)

\* str.replace of the flag's regular expression, n = 1
phonetic_replace(flag, rule, s) ==
    CASE flag = "^" ->
            IF StrStartsWith(s, rule.pattern)
            THEN ReplaceAt(s, rule.pattern, rule.replacement, 0) ELSE s
      [] flag = "$" ->
            IF StrEndsWith(s, rule.pattern)
            THEN ReplaceAt(s, rule.pattern, rule.replacement, Len(s) - Len(rule.pattern))
            ELSE s
      [] flag = "_" ->
            \* the first group is greedy: the last of the occurrences
            IF MiddlePositions(s, rule.pattern) # {}
            THEN ReplaceAt(s, rule.pattern, rule.replacement,
                           CHOOSE i \in MiddlePositions(s, rule.pattern) :
                               \A k \in MiddlePositions(s, rule.pattern) : k <= i)
            ELSE s

series_phonetic_replace(flag, rule, srs) ==
    Series(srs.index, [p \in Rows(srs) |-> phonetic_replace(flag, rule, srs.data[p])])

\* rng.shuffle: the orders of a list
Shuffles(list) ==
    {[i \in DOMAIN list |-> list[f[i]]] :
        f \in {g \in [DOMAIN list -> DOMAIN list] :
                  \A a, b \in DOMAIN list : g[a] = g[b] => a = b}}

\* the rule tables: one rule for both ends; a rule for every position and one for
\* the middle, the second undoing the first
PhoneticTables ==
    {<<PhoneticReplacementRule(<<"a">>, <<"b">>, <<"^", "$">>)>>,
     <<PhoneticReplacementRule(<<"a">>, <<"b">>, << >>),
       PhoneticReplacementRule(<<"b">>, <<"a">>, <<"_">>)>>}

\* the strings of the batches given to with_phonetic_replacement_table: some long
\* enough for a pattern in the middle
PhoneticStrings ==
    {<< >>, <<"a">>, <<"a", "a">>, <<"b", "a", "b">>, <<"b", "a", "a">>,
     <<"a", "b", "a">>}

PhoneticBatches == BatchesOver(PhoneticStrings)

(***************************************************************************)
(* corrupt_dataframe.  A table is a record [columns, index, data]: the     *)
(* column names, the row identities and, for every column, its values.     *)
(* column_to_corruptor_dict is the sequence of its entries in insertion    *)
(* order, an entry a record [column, kind, ps, fs]: a single corruptor     *)
(* (fs of one), a list of corruptors (fs), or a list of tuples of a        *)
(* probability and a corruptor (ps and fs); a probability is an integer,   *)
(* ProbDen standing for 1.0.                                               *)
(***************************************************************************)
DataFrameCopyAlias(obj) == obj

\* df_in.copy(): a new object
DataFrameCopy(obj) == NewObj

\* column in df_in.columns
HasColumn(df, column) == \E c \in DOMAIN df.columns : df.columns[c] = column

ColumnPos(df, column) == CHOOSE c \in DOMAIN df.columns : df.columns[c] = column

\* df[column]
ColumnOf(df, column) == Series(df.index, df.data[ColumnPos(df, column)])

\* sep.join(list)
RECURSIVE Join(_, _)
Join(sep, list) ==
    IF list = << >> THEN << >>
    ELSE IF Len(list) = 1 THEN list
    ELSE <<Head(list), sep>> \o Join(sep, Tail(list))

\* the message of the first ValueError, without the listing of the columns
ColumnMissingMessageBare(column, columns) ==
    <<"column ", column, " does not exist, must be one of ">>

\* the message of the first ValueError, in its parts; the quotes around the names
\* are left out
ColumnMissingMessage(column, columns) ==
    <<"column ", column, " does not exist, must be one of ">> \o Join(",", columns)

\* the message of the second ValueError
ProbabilitiesMessage(column) ==
    <<"probabilities for column ", column, " must sum up to 1.0">>

\* every corruptor of a list with the probability 1.0
NormalizedSpecAllOnes(entry) ==
    [p_values |-> IF entry.kind = "tuples" THEN entry.ps ELSE [i \in DOMAIN entry.fs |-> 1],
     one |-> IF entry.kind = "tuples" THEN ProbDen ELSE 1,
     corruptor_funcs |-> entry.fs]

\* corruptor_spec as a list of tuples: p_values and corruptor_funcs, and the
\* integer that stands for 1.0 in p_values
NormalizedSpec(entry) ==
    CASE entry.kind = "single" ->
            [p_values |-> <<1>>, one |-> 1, corruptor_funcs |-> entry.fs]
      [] entry.kind = "list" ->
            [p_values |-> [i \in DOMAIN entry.fs |-> 1], one |-> Len(entry.fs),
             corruptor_funcs |-> entry.fs]
      [] entry.kind = "tuples" ->
            [p_values |-> entry.ps, one |-> ProbDen, corruptor_funcs |-> entry.fs]

\* corruptor(srs) for the corruptors the tables are corrupted with
CorruptorCall(corruptor, srs) ==
    CASE corruptor.name = "with_noop" -> with_noop_corrupt(srs)
      [] corruptor.name = "with_missing_value" ->
            with_missing_value_corrupt(corruptor.value, corruptor.strategy, srs)

\* every row, whatever was drawn for it
mask_every_row(srs_corruptor_idx, i) == [p \in DOMAIN srs_corruptor_idx |-> TRUE]

\* srs_corruptor_idx == i
mask_this_corruptor(srs_corruptor_idx, i) ==
    [p \in DOMAIN srs_corruptor_idx |-> srs_corruptor_idx[p] = i]

\* df.loc[mask, column] = srs
LocSet(df, mask, column, srs) ==
    [df EXCEPT !.data[ColumnPos(df, column)] =
                   SeriesSetMask(ColumnOf(df, column), mask, srs).data]

Noop == [name |-> "with_noop", value |-> << >>, strategy |-> "none"]

MissingAll == [name |-> "with_missing_value", value |-> <<"n">>, strategy |-> "all"]

Single(column, f) == [column |-> column, kind |-> "single", ps |-> << >>, fs |-> <<f>>]

List(column, fs) == [column |-> column, kind |-> "list", ps |-> << >>, fs |-> fs]

Tuples(column, ps, fs) == [column |-> column, kind |-> "tuples", ps |-> ps, fs |-> fs]

\* the tables: columns foo and bar, no row, one row or two
DataFrames ==
    UNION {{[columns |-> <<"foo", "bar">>, index |-> ix, data |-> <<foo, bar>>] :
                foo \in [1 .. Len(ix) -> {<<"a">>, <<"b">>}],
                bar \in [1 .. Len(ix) -> {<<"c">>}]} : ix \in Indexes}

\* the dictionaries: a corruptor, a list, tuples whose probabilities sum to less
\* than 1, more than 1, 1, and to 1 with a negative one among them; a column the
\* tables lack, alone and after a column they have; two columns
CorruptorDicts ==
    {<<Single("foo", MissingAll)>>,
     <<List("foo", <<Noop, MissingAll>>)>>,
     <<Tuples("foo", <<ProbDen - 2>>, <<MissingAll>>)>>,
     <<Tuples("foo", <<ProbDen - 1, 2>>, <<Noop, MissingAll>>)>>,
     <<Tuples("foo", <<1, ProbDen - 1>>, <<Noop, MissingAll>>)>>,
     <<Tuples("foo", <<0 - 1, ProbDen + 1>>, <<Noop, MissingAll>>)>>,
     <<Single("baz", Noop)>>,
     <<Single("foo", MissingAll), Single("baz", Noop)>>,
     <<Single("foo", MissingAll), Tuples("bar", <<ProbDen - 1, 2>>, <<Noop, MissingAll>>)>>,
     <<Single("foo", MissingAll), List("bar", <<MissingAll, Noop>>)>>}

\* the strings of the batches given to with_missing_value: blank ones among them
BlankStrings == StrsUpTo({"a", " "}, MaxLen)

MissingValues == {<< >>, <<"n">>}

(***************************************************************************)
(* Calls of a corruption function on a batch                               *)
(***************************************************************************)
NoCall == [name |-> "none"]

NoLocals == [state |-> "none"]

NoTable == [columns |-> << >>, index |-> << >>, data |-> << >>]

Init ==
    /\ pc = "idle"
    /\ func = NoCall
    /\ srs_in0 = EmptySeries
    /\ srs_in = EmptySeries
    /\ srs_out = EmptySeries
    /\ err = NoError
    /\ ph = NoLocals
    /\ df_in0 = NoTable
    /\ df_in = NoTable
    /\ df_out = NoTable
    /\ orch = NoLocals
    /\ rerun = EmptySeries
    /\ rt = NoLocals

\* the call of f on the batch srs ends with the result r: what it leaves behind
Finish(f, srs, r) ==
    /\ pc' = "done"
    /\ func' = f
    /\ srs_in0' = srs
    /\ srs_in' = IF r.err = NoError /\ r.obj = InObj THEN r.srs ELSE srs
    /\ srs_out' = r.srs
    /\ err' = r.err
    /\ UNCHANGED <<ph, df_in0, df_in, df_out, orch, rerun, rt>>

CallNoop ==
    /\ pc = "idle"
    /\ \E srs \in Batches :
            Finish([name |-> "with_noop"], srs, with_noop_corrupt(srs))

CallMissingValue ==
    /\ pc = "idle"
    /\ \E value \in MissingValues, strategy \in Strategies,
          srs \in BatchesOver(BlankStrings) :
            Finish([name |-> "with_missing_value", value |-> value,
                    strategy |-> strategy],
                   srs, with_missing_value_corrupt(value, strategy, srs))

CallInsert ==
    /\ pc = "idle"
    /\ \E charset \in Charsets, srs \in Batches :
            \E arr_rng_vals \in RandomDraws(Size(srs)),
               rand_chars \in ChoiceDraws(charset, Size(srs)) :
                Finish([name |-> "with_insert", charset |-> charset], srs,
                       with_insert_corrupt(charset, srs, arr_rng_vals, rand_chars))

CallDelete ==
    /\ pc = "idle"
    /\ \E srs \in Batches :
            \E arr_rng_vals \in RandomDraws(MaskSum(MinLenMask(srs, 1))) :
                Finish([name |-> "with_delete"], srs,
                       with_delete_corrupt(srs, arr_rng_vals))

CallTranspose ==
    /\ pc = "idle"
    /\ \E srs \in Batches :
            \E arr_rng_vals \in RandomDraws(MaskSum(MinLenMask(srs, 2))) :
                Finish([name |-> "with_transpose"], srs,
                       with_transpose_corrupt(srs, arr_rng_vals))

CallSubstitute ==
    /\ pc = "idle"
    /\ \E charset \in Charsets, srs \in Batches :
            \E arr_rng_vals \in RandomDraws(MaskSum(MinLenMask(srs, 1))),
               rand_chars \in ChoiceDraws(charset, MaskSum(MinLenMask(srs, 1))) :
                Finish([name |-> "with_substitute", charset |-> charset], srs,
                       with_substitute_corrupt(charset, srs, arr_rng_vals, rand_chars))

CallEdit ==
    /\ pc = "idle"
    /\ \E edit_ops_prob \in {p \in EditProbs : with_edit_error(p) = NoError},
          charset \in EditCharsets, srs \in Batches :
            \E ops \in [Rows(srs) -> {edit_ops[i] : i \in ChoicePSupport(edit_ops_prob)}] :
                \E d \in EditDraws(charset, srs, ops) :
                    Finish([name |-> "with_edit", edit_ops_prob |-> edit_ops_prob,
                            charset |-> charset, str_in_edit_ops |-> ops],
                           srs, with_edit_corrupt_list(charset, srs, ops, d))

\* with_edit(p_insert, p_delete, p_substitute, p_transpose, charset): the
\* construction alone, which raises or returns the function
ConstructEdit ==
    /\ pc = "idle"
    /\ \E edit_ops_prob \in EditProbsTried, charset \in EditCharsets :
            /\ pc' = IF with_edit_error(edit_ops_prob) = NoError
                     THEN "constructed" ELSE "failed"
            /\ func' = [name |-> "with_edit", edit_ops_prob |-> edit_ops_prob,
                        charset |-> charset]
            /\ err' = with_edit_error(edit_ops_prob)
            /\ UNCHANGED <<srs_in0, srs_in, srs_out, ph, df_in0, df_in, df_out,
                           orch, rerun, rt>>

CallCategorical ==
    /\ pc = "idle"
    /\ \E unique_values \in CategoryTables, srs \in Batches :
            \E row_draws \in CategoricalDraws(unique_values, srs) :
                Finish([name |-> "with_categorical_values",
                        unique_values |-> unique_values],
                       srs,
                       with_categorical_values_corrupt_list(unique_values, srs,
                                                            row_draws))

CallKeymap ==
    /\ pc = "idle"
    /\ \E f \in KeymapFunctions, srs \in Batches :
            \E arr_rng_vals \in RandomDraws(Size(srs)) :
                \E choice_vals \in KeymapChoiceDraws(f.dict, srs, arr_rng_vals) :
                    Finish([name |-> "with_cldr_keymap_file", keymap |-> f.keymap,
                            charset |-> f.charset, dict |-> f.dict,
                            arr_rng_vals |-> arr_rng_vals],
                           srs,
                           with_cldr_keymap_file_corrupt(f.dict, srs, arr_rng_vals,
                                                         choice_vals))

CallReplacementTable ==
    /\ pc = "idle"
    /\ \E df \in ReplacementTables, srs \in Batches :
            \E arr_rand_vals \in ReplacementRandomDraws(df, srs) :
                \E target_draws \in ReplacementTargetDraws(df, srs, arr_rand_vals) :
                    Finish([name |-> "with_replacement_table", df |-> df], srs,
                           with_replacement_table_corrupt(df, srs, arr_rand_vals,
                                                          target_draws))

\* srs_str_out, the flags of every rule and the counts: the call up to the loop
\* over the rules
PhoneticCall ==
    /\ pc = "idle"
    /\ \E phonetic_replacement_rules \in PhoneticTables, srs \in PhoneticBatches :
            /\ func' = [name |-> "with_phonetic_replacement_table",
                        rules |-> phonetic_replacement_rules]
            /\ srs_in0' = srs
            /\ srs_in' = srs
            /\ ph' = [obj |-> SeriesCopy(InObj),
                      srs_str_out |-> srs,
                      rule_to_flag_dict |->
                          rule_to_flag_dict_of(phonetic_replacement_rules, srs),
                      mask_modified_rows |-> [p \in Rows(srs) |-> FALSE],
                      rule |-> 1,
                      arr_rand_vals |-> << >>,
                      mask_candidate_rows |-> [p \in Rows(srs) |-> FALSE],
                      arr_rand_flags |-> << >>,
                      writes |-> [p \in Rows(srs) |-> 0]]
    /\ pc' = "phonetic_rule"
    /\ UNCHANGED <<srs_out, err, df_in0, df_in, df_out, orch, rerun, rt>>

\* the head of the loop over the rules: the random numbers and the shuffled flags
PhoneticRule ==
    /\ pc = "phonetic_rule"
    /\ ph.rule <= Len(func.rules)
    /\ LET srs_str_flags == ph.rule_to_flag_dict[ph.rule]
           counts == [p \in DOMAIN srs_str_flags |->
                         phonetic_rule_count(ph.rule_to_flag_dict, p)]
       IN  \E arr_rand_vals \in {v \in RandomDraws(Size(ph.srs_str_out)) :
                                    \A p \in DOMAIN v :
                                        srs_str_flags[p] # << >> \/ v[p] = 0},
              arr_rand_flags \in Shuffles(func.rules[ph.rule].flags) :
                ph' = [ph EXCEPT
                          !.arr_rand_vals = arr_rand_vals,
                          !.mask_candidate_rows =
                              CandidateRows(arr_rand_vals, counts, srs_str_flags),
                          !.arr_rand_flags = arr_rand_flags]
    /\ pc' = "phonetic_flag"
    /\ UNCHANGED <<func, srs_in0, srs_in, srs_out, err, df_in0, df_in, df_out, orch, rerun, rt>>

\* one pass of the loop over the shuffled flags; after the last flag the next rule.
\* arr_rand_vals is not read after mask_candidate_rows is built: it is dropped here
PhoneticFlag ==
    /\ pc = "phonetic_flag"
    /\ LET flag == Head(ph.arr_rand_flags)
           rule == func.rules[ph.rule]
           mask_current_candidate_rows ==
               CurrentCandidateRows(ph.mask_candidate_rows,
                                    CurrentFlagMask(flag, rule, ph.srs_str_out),
                                    ph.mask_modified_rows)
           new == series_phonetic_replace(
                      flag, rule, SeriesMask(ph.srs_str_out, mask_current_candidate_rows))
           srs_str_out == SeriesSetMask(ph.srs_str_out, mask_current_candidate_rows, new)
           last == Tail(ph.arr_rand_flags) = << >>
       IN  /\ ph' = [ph EXCEPT
                        !.srs_str_out = srs_str_out,
                        !.mask_modified_rows =
                            [p \in DOMAIN @ |-> @[p] \/ mask_current_candidate_rows[p]],
                        !.writes =
                            [p \in DOMAIN @ |->
                                @[p] + (IF mask_current_candidate_rows[p] THEN 1 ELSE 0)],
                        !.arr_rand_flags = Tail(@),
                        !.arr_rand_vals = << >>,
                        !.rule = IF last THEN @ + 1 ELSE @]
           /\ srs_in' = IF ph.obj = InObj THEN srs_str_out ELSE srs_in
           /\ pc' = IF last THEN "phonetic_rule" ELSE "phonetic_flag"
    /\ UNCHANGED <<func, srs_in0, srs_out, err, df_in0, df_in, df_out, orch, rerun, rt>>

\* return srs_str_out
PhoneticReturn ==
    /\ pc = "phonetic_rule"
    /\ ph.rule > Len(func.rules)
    /\ pc' = "done"
    /\ srs_out' = ph.srs_str_out
    /\ UNCHANGED <<func, srs_in0, srs_in, err, ph, df_in0, df_in, df_out, orch, rerun, rt>>

Next ==
    \/ CallNoop
    \/ CallMissingValue
    \/ CallInsert
    \/ CallDelete
    \/ CallTranspose
    \/ CallSubstitute
    \/ ConstructEdit
    \/ CallEdit
    \/ CallCategorical
    \/ CallKeymap
    \/ CallReplacementTable
    \/ PhoneticCall
    \/ PhoneticRule
    \/ PhoneticFlag
    \/ PhoneticReturn

Spec == Init /\ [][Next]_vars

(***************************************************************************)
(* Calls of corrupt_dataframe                                              *)
(***************************************************************************)
\* df_out = df_in.copy(), up to the loop over the dictionary
DataFrameCall ==
    /\ pc = "idle"
    /\ \E df \in DataFrames, column_to_corruptor_dict \in CorruptorDicts :
            /\ df_in0' = df
            /\ df_in' = df
            /\ df_out' = df
            /\ orch' = [dict |-> column_to_corruptor_dict,
                        obj |-> DataFrameCopy(InObj),
                        entry |-> 1,
                        srs_corruptor_idx |-> << >>,
                        i |-> 1,
                        assigned |-> << >>,
                        drawn |-> << >>,
                        invoked |-> << >>,
                        message |-> << >>,
                        returned |-> FALSE]
    /\ pc' = "column"
    /\ UNCHANGED <<func, srs_in0, srs_in, srs_out, err, ph, rerun, rt>>

\* the ValueError with the message m leaves corrupt_dataframe
DataFrameRaise(m) ==
    /\ pc' = "done"
    /\ err' = "ValueError"
    /\ orch' = [orch EXCEPT !.message = m]

\* the head of the loop over the dictionary: the two checks of the entry, then the
\* corruptor of every row
DataFrameColumn ==
    /\ pc = "column"
    /\ orch.entry <= Len(orch.dict)
    /\ LET column == orch.dict[orch.entry].column
           spec == NormalizedSpec(orch.dict[orch.entry])
       IN  IF ~HasColumn(df_in, column)
           THEN DataFrameRaise(ColumnMissingMessage(column, df_in.columns))
           ELSE IF ChoicePRaises(spec.p_values, spec.one)
           THEN DataFrameRaise(ProbabilitiesMessage(column))
           ELSE /\ \E arr_corruptor_per_row \in
                        [1 .. Len(df_out.index) -> ChoicePSupport(spec.p_values)] :
                      orch' = [orch EXCEPT
                                  !.srs_corruptor_idx = arr_corruptor_per_row,
                                  !.i = 1,
                                  !.assigned = Append(@, column),
                                  !.drawn = Append(@, arr_corruptor_per_row)]
                /\ pc' = "corruptor"
                /\ err' = err
    /\ UNCHANGED <<func, srs_in0, srs_in, srs_out, ph, df_in0, df_in, df_out, rerun, rt>>

\* one pass of the loop over the corruptors of the entry; after the last corruptor
\* the next entry
DataFrameCorruptor ==
    /\ pc = "corruptor"
    /\ LET column == orch.dict[orch.entry].column
           corruptor_funcs == NormalizedSpec(orch.dict[orch.entry]).corruptor_funcs
           srs_column == ColumnOf(df_in, column)
           mask == mask_this_corruptor(orch.srs_corruptor_idx, orch.i)
           r == CorruptorCall(corruptor_funcs[orch.i], SeriesMask(srs_column, mask))
           written == LocSet(df_out, mask, column, r.srs)
           last == orch.i = Len(corruptor_funcs)
       IN  /\ df_out' = written
           /\ df_in' = IF orch.obj = InObj THEN written ELSE df_in
           /\ orch' = [orch EXCEPT
                          !.invoked = Append(@, [column |-> column, i |-> orch.i,
                                                 srs |-> SeriesMask(srs_column, mask)]),
                          !.i = IF last THEN 1 ELSE @ + 1,
                          !.entry = IF last THEN @ + 1 ELSE @]
           /\ pc' = IF last THEN "column" ELSE "corruptor"
    /\ UNCHANGED <<func, srs_in0, srs_in, srs_out, err, ph, df_in0, rerun, rt>>

\* return df_out
DataFrameReturn ==
    /\ pc = "column"
    /\ orch.entry > Len(orch.dict)
    /\ pc' = "done"
    /\ orch' = [orch EXCEPT !.returned = TRUE]
    /\ UNCHANGED <<func, srs_in0, srs_in, srs_out, err, ph, df_in0, df_in, df_out, rerun, rt>>

NextDataFrame ==
    \/ DataFrameCall
    \/ DataFrameColumn
    \/ DataFrameCorruptor
    \/ DataFrameReturn

SpecDataFrame == Init /\ [][NextDataFrame]_vars

(***************************************************************************)
(* with_replacement_table._corrupt, one source of the table at a time      *)
(***************************************************************************)
\* the copy, the counts and the empty df_replacement: the call up to the loop
\* that selects
ReplacementCall ==
    /\ pc = "idle"
    /\ \E df \in ReplacementTables, srs \in Batches :
            /\ func' = [name |-> "with_replacement_table", df |-> df]
            /\ srs_in0' = srs
            /\ srs_in' = srs
            /\ rt' = [obj |-> SeriesCopy(InObj),
                      counts |-> replacement_count_loop([p \in Rows(srs) |-> 0], srs,
                                                        Unique(SourceColumn(df))),
                      df_replacement |-> [source |-> [p \in Rows(srs) |-> NaN],
                                          target |-> [p \in Rows(srs) |-> NaN]],
                      j |-> 1,
                      arr_rand_vals |-> << >>]
    /\ pc' = "replacement_source"
    /\ UNCHANGED <<srs_out, err, ph, df_in0, df_in, df_out, orch, rerun>>

\* one pass of the loop over srs_unique_source_values
ReplacementSource ==
    /\ pc = "replacement_source"
    /\ rt.j <= Len(Unique(SourceColumn(func.df)))
    /\ LET source == Unique(SourceColumn(func.df))[rt.j]
           options == Len(ReplacementOptions(func.df, source))
       IN  \E arr_rand_vals \in {v \in RandomDraws(Size(srs_in0)) :
                                    \A p \in DOMAIN v :
                                        StrContainsRegex(srs_in0.data[p], source)
                                            \/ v[p] = 0} :
               \E target_draws \in
                      {d \in [Rows(srs_in0) -> 1 .. 2] :
                          \A p \in Rows(srs_in0) :
                              IF StringsToReplace(rt.df_replacement, srs_in0, rt.counts,
                                                  source, arr_rand_vals)[p]
                              THEN d[p] <= options ELSE d[p] = 1} :
                   rt' = [rt EXCEPT
                             !.df_replacement =
                                 replacement_select_step(@, func.df, srs_in0, rt.counts,
                                                         source, arr_rand_vals,
                                                         target_draws),
                             !.arr_rand_vals = arr_rand_vals,
                             !.j = @ + 1]
    /\ pc' = "replacement_source"
    /\ UNCHANGED <<func, srs_in0, srs_in, srs_out, err, ph, df_in0, df_in, df_out, orch,
                   rerun>>

\* the loop that replaces, and return srs_str_out
ReplacementReturn ==
    /\ pc = "replacement_source"
    /\ rt.j > Len(Unique(SourceColumn(func.df)))
    /\ pc' = "done"
    /\ srs_out' = replacement_apply_loop(srs_in0, rt.df_replacement,
                                         Unique(rt.df_replacement.source))
    /\ UNCHANGED <<func, srs_in0, srs_in, err, ph, df_in0, df_in, df_out, orch, rerun,
                   rt>>

NextReplacement ==
    \/ ReplacementCall
    \/ ReplacementSource
    \/ ReplacementReturn

SpecReplacement == Init /\ [][NextReplacement]_vars

(***************************************************************************)
(* Two runs of the program that construct the keyboard typo function from  *)
(* the same keymap and call it on the same batch, the random source in the *)
(* same state.  What is no input of the program, the order a set of        *)
(* characters is iterated in, is each run's own.                           *)
(***************************************************************************)
\* the functions the two runs construct, each with its kb_char_to_candidates_dict
RepeatFunctions ==
    {[keymap |-> keymap, charset |-> charset,
      dict |-> with_cldr_keymap_file(keymap, charset, hash_order),
      dict_again |-> with_cldr_keymap_file(keymap, charset, hash_order_again)] :
        keymap \in Keymaps, charset \in KeymapCharsets,
        hash_order \in HashOrders, hash_order_again \in HashOrders}

RepeatKeymap ==
    /\ pc = "idle"
    /\ \E f \in RepeatFunctions, srs \in Batches :
            \E arr_rng_vals \in RandomDraws(Size(srs)) :
                \E choice_vals \in KeymapChoiceDraws(f.dict, srs, arr_rng_vals) :
                    /\ func' = [name |-> "with_cldr_keymap_file",
                                keymap |-> f.keymap, charset |-> f.charset]
                    /\ srs_in0' = srs
                    /\ srs_in' = srs
                    /\ srs_out' = with_cldr_keymap_file_corrupt(
                                      f.dict, srs, arr_rng_vals, choice_vals).srs
                    /\ rerun' = with_cldr_keymap_file_corrupt(
                                    f.dict_again, srs, arr_rng_vals, choice_vals).srs
    /\ pc' = "done"
    /\ UNCHANGED <<err, ph, df_in0, df_in, df_out, orch, rt>>

NextRepeat == RepeatKeymap

SpecRepeat == Init /\ [][NextRepeat]_vars

(***************************************************************************)
(* Properties of the corruption functions                                  *)
(***************************************************************************)
Returns == pc = "done" /\ err = NoError

InPhonetic ==
    func.name = "with_phonetic_replacement_table"
        /\ pc \in {"phonetic_rule", "phonetic_flag", "done"}

\* C1: whatever corruption function is called and however far the call has come,
\* the contents of the caller's batch are what they were when the call was made.
InputBatchUntouched == srs_in = srs_in0

\* C1: a call has returned a batch that differs from the batch it was given
InputBatchCorrupted ==
    Returns /\ srs_out.data # srs_in0.data /\ func.name = "with_insert"

\* C2: the batch a corruption function returns has as many rows as the batch it
\* was given, and the same row identities in the same order.
ShapePreserved ==
    Returns =>
        /\ Len(srs_out.data) = Len(srs_in0.data)
        /\ Len(srs_out.index) = Len(srs_out.data)
        /\ srs_out.index = srs_in0.index

\* C2: every value of a batch whose row identities are not 0, 1, ... was replaced
AllReplacedUnderOwnIndex ==
    /\ Returns
    /\ func.name = "with_missing_value"
    /\ func.strategy = "all"
    /\ srs_in0.index = <<1, 3>>
    /\ \A p \in Rows(srs_out) : srs_out.data[p] # srs_in0.data[p]

\* C9: a call of a constructed corruption function on a batch of strings returns a
\* batch; it raises no error.
BatchCallNeverRaises == pc = "done" => err = NoError

\* C10: in a call of the phonetic function, after any number of rules and any
\* number of a rule's shuffled flags, no row has been written more than once.
PhoneticModifiedAtMostOnce ==
    InPhonetic => \A p \in DOMAIN ph.writes : ph.writes[p] <= 1

\* C10: the flag at hand fits a candidate row that an earlier flag or rule has
\* modified
PhoneticSecondFlagFits ==
    /\ pc = "phonetic_flag"
    /\ \E p \in DOMAIN ph.writes :
            /\ ph.writes[p] = 1
            /\ ph.mask_modified_rows[p]
            /\ ph.mask_candidate_rows[p]
            /\ CurrentFlagMask(Head(ph.arr_rand_flags), func.rules[ph.rule],
                               ph.srs_str_out)[p]

(***************************************************************************)
(* Properties of corrupt_dataframe, of the behaviours of SpecDataFrame     *)
(***************************************************************************)
\* the sum of the probabilities an entry declares
DeclaredSum(entry) == SeqSum(entry.ps)

NonNegative(entry) == \A i \in DOMAIN entry.ps : entry.ps[i] >= 0

\* the values of the column of the table
ValuesOf(df, column) == df.data[ColumnPos(df, column)]

\* C4: a call whose dictionary holds one entry, tuples of non-negative
\* probabilities that sum to less than 1.0 for a column of the table, returns a
\* table, and every row of the column holds either its input value or the value of
\* one of the listed corruptors.
PaddedProbabilitiesAccepted ==
    (/\ pc = "done"
     /\ Len(orch.dict) = 1
     /\ orch.dict[1].kind = "tuples"
     /\ HasColumn(df_in0, orch.dict[1].column)
     /\ NonNegative(orch.dict[1])
     /\ DeclaredSum(orch.dict[1]) < ProbDen)
        => /\ err = NoError
           /\ orch.returned
           /\ \A p \in DOMAIN df_out.index :
                  ValuesOf(df_out, orch.dict[1].column)[p]
                      \in {ValuesOf(df_in0, orch.dict[1].column)[p], MissingAll.value}

\* C5: the call raises the error about the probabilities of a column only if the
\* probabilities declared for it sum to more than 1.0; non-negative probabilities
\* that sum to 1.0 or less are accepted.
ProbabilitiesErrorOnlyAboveOne ==
    (/\ pc = "done"
     /\ orch.entry <= Len(orch.dict)
     /\ orch.dict[orch.entry].kind = "tuples"
     /\ HasColumn(df_in0, orch.dict[orch.entry].column)
     /\ NonNegative(orch.dict[orch.entry]))
        => (err # NoError <=> DeclaredSum(orch.dict[orch.entry]) > ProbDen)

\* C6: the caller's table is never written to; the table returned has the columns
\* and the rows of the caller's, and the values of the caller's in every column
\* that is no key of the dictionary.
TableUntouched ==
    /\ df_in = df_in0
    /\ (pc = "done" /\ err = NoError) =>
            /\ orch.returned
            /\ df_out.columns = df_in0.columns
            /\ df_out.index = df_in0.index
            /\ \A c \in DOMAIN df_out.columns :
                    /\ Len(df_out.data[c]) = Len(df_in0.data[c])
                    /\ (\A e \in DOMAIN orch.dict : orch.dict[e].column # df_out.columns[c])
                            => df_out.data[c] = df_in0.data[c]

\* C6: a table was returned that differs from the caller's in a column of the
\* dictionary, and the caller's has a column that is no key of it
TableCorrupted ==
    /\ pc = "done"
    /\ err = NoError
    /\ Len(orch.dict) = 1
    /\ df_in0.index = <<1, 3>>
    /\ \A p \in DOMAIN df_out.index :
            ValuesOf(df_out, "foo")[p] # ValuesOf(df_in0, "foo")[p]

\* C7: a call whose dictionary has a key that is no column of the table returns no
\* table; it ends with an error, and when the key is the one the call stopped at,
\* the message names the key and lists the columns of the table.
MissingColumnReported ==
    pc = "done" =>
        /\ (\E e \in DOMAIN orch.dict : ~HasColumn(df_in0, orch.dict[e].column))
                => err # NoError /\ ~orch.returned
        /\ (orch.entry <= Len(orch.dict)
                /\ ~HasColumn(df_in0, orch.dict[orch.entry].column))
                => orch.message =
                       <<"column ", orch.dict[orch.entry].column,
                         " does not exist, must be one of ", "foo", ",", "bar">>

\* C7: the call with the one key baz has ended
MissingColumnCall ==
    /\ pc = "done"
    /\ Len(orch.dict) = 1
    /\ orch.dict[1].column = "baz"
    /\ df_in0.columns = <<"foo", "bar">>
    /\ err # NoError

\* C8: when the call ends with an error, no corruptor has been called on any
\* column and no row has been given a corruptor.
ErrorBeforeAnyCorruption ==
    (pc = "done" /\ err # NoError) => orch.invoked = << >> /\ orch.assigned = << >>

ReturnsFrom(name) == Returns /\ func.name = name

\* the positions two strings of one length differ at, 1-based
DiffPositions(s, t) == {j \in DOMAIN s : s[j] # t[j]}

\* C11: a string the keyboard typo function returns has the length of the input
\* string, and wherever it differs from it, the new character is one of the
\* candidates (the neighbours) of the old one; when the selected character has no
\* candidates, or the string is empty, the string is returned as it was.
TypoWithinNeighbours ==
    ReturnsFrom("with_cldr_keymap_file") =>
        \A p \in Rows(srs_in0) :
            LET s == srs_in0.data[p]
                t == srs_out.data[p]
                i == FloorMul(Len(s), func.arr_rng_vals[p])
            IN  /\ Len(t) = Len(s)
                /\ \A j \in DiffPositions(s, t) : t[j] \in Elems(func.dict[s[j]])
                /\ (s = << >> \/ func.dict[s[i + 1]] = << >>) => t = s

\* C11: one call has changed a character into a neighbour and left alone a string
\* whose selected character has none
TypoAndNoTypo ==
    /\ ReturnsFrom("with_cldr_keymap_file")
    /\ Size(srs_in0) = 2
    /\ srs_in0.data[1] # << >>
    /\ srs_in0.data[2] # << >>
    /\ srs_out.data[1] # srs_in0.data[1]
    /\ func.dict[srs_in0.data[2][FloorMul(Len(srs_in0.data[2]), func.arr_rng_vals[2]) + 1]]
           = << >>

\* s with the character c put in before the 0-based index i
WithInserted(s, i, c) == SubSeq(s, 1, i) \o <<c>> \o SubSeq(s, i + 1, Len(s))

\* C12: every string with_insert returns, the empty one included, is the input
\* string with one character of the charset put in at an index from 0 to the
\* length of the string: one character longer, the old characters in their order.
InsertSplicesOneChar ==
    ReturnsFrom("with_insert") =>
        \A p \in Rows(srs_in0) :
            /\ Len(srs_out.data[p]) = Len(srs_in0.data[p]) + 1
            /\ \E i \in 0 .. Len(srs_in0.data[p]), c \in Elems(func.charset) :
                    srs_out.data[p] = WithInserted(srs_in0.data[p], i, c)

\* C12: a character was put in at the end of a string and into the empty string
InsertAtEndAndIntoEmpty ==
    /\ ReturnsFrom("with_insert")
    /\ srs_in0.data = << <<"a", "b">>, << >> >>
    /\ srs_out.data = << <<"a", "b", "x">>, <<"x">> >>

\* s without the character at the 0-based index i
WithoutChar(s, i) == SubSeq(s, 1, i) \o SubSeq(s, i + 2, Len(s))

\* C13: every string with_delete returns for a string of one character or more is
\* that string without the character at one of its indexes; the empty string is
\* returned as it is, whatever else the batch holds.
DeleteRemovesOneChar ==
    ReturnsFrom("with_delete") =>
        \A p \in Rows(srs_in0) :
            IF srs_in0.data[p] = << >> THEN srs_out.data[p] = << >>
            ELSE /\ Len(srs_out.data[p]) = Len(srs_in0.data[p]) - 1
                 /\ \E i \in 0 .. (Len(srs_in0.data[p]) - 1) :
                        srs_out.data[p] = WithoutChar(srs_in0.data[p], i)

\* C13: the last character of a string was removed in a batch that holds the empty
\* string too
DeleteBesideEmpty ==
    /\ ReturnsFrom("with_delete")
    /\ srs_in0.data = << << >>, <<"a", "b">> >>
    /\ srs_out.data = << << >>, <<"a">> >>

\* s with the characters at the 1-based positions j and j + 1 swapped
WithSwapped(s, j) == [s EXCEPT ![j] = s[j + 1], ![j + 1] = s[j]]

\* C14: every string with_transpose returns for a string of two characters or more
\* is that string with two neighbouring characters swapped; a string of fewer
\* characters is returned as it is, whatever else the batch holds.
TransposeSwapsNeighbours ==
    ReturnsFrom("with_transpose") =>
        \A p \in Rows(srs_in0) :
            IF Len(srs_in0.data[p]) < 2 THEN srs_out.data[p] = srs_in0.data[p]
            ELSE \E j \in 1 .. (Len(srs_in0.data[p]) - 1) :
                    srs_out.data[p] = WithSwapped(srs_in0.data[p], j)

\* C14: two characters were swapped in a batch that holds a string of one character
TransposeBesideShort ==
    /\ ReturnsFrom("with_transpose")
    /\ srs_in0.data = << <<"a">>, <<"a", "b">> >>
    /\ srs_out.data = << <<"a">>, <<"b", "a">> >>

\* C15: every string with_substitute returns for a string of one character or more
\* has the length of that string and its characters at every index but one, where
\* it has a character of the charset; the empty string is returned as it is.
SubstituteReplacesOneChar ==
    ReturnsFrom("with_substitute") =>
        \A p \in Rows(srs_in0) :
            IF srs_in0.data[p] = << >> THEN srs_out.data[p] = << >>
            ELSE \E j \in DOMAIN srs_in0.data[p], c \in Elems(func.charset) :
                    srs_out.data[p] = [srs_in0.data[p] EXCEPT ![j] = c]

\* C15: a character was replaced by another and, in the same batch, one by itself
SubstituteOtherAndSelf ==
    /\ ReturnsFrom("with_substitute")
    /\ func.charset = <<"a", "b">>
    /\ srs_in0.data = << <<"a", "b">>, <<"a">> >>
    /\ srs_out.data = << <<"a", "a">>, <<"a">> >>

\* the four probabilities lie in [0, 1] each and sum to 1
ValidEditProbs(p) ==
    /\ \A i \in 1 .. 4 : 0 <= p[i] /\ p[i] <= ProbDen
    /\ p[1] + p[2] + p[3] + p[4] = ProbDen

\* C16: with_edit returns a function only for four probabilities that lie in
\* [0, 1] each and sum to 1; for any others the construction raises an error, and
\* for probabilities in [0, 1] of a wrong sum the error reads "probabilities must
\* sum up to 1.0"; no function of with_edit is ever called that was built from
\* other probabilities.
EditOnlyFromValidProbs ==
    func.name = "with_edit" =>
        LET p == func.edit_ops_prob
        IN  /\ pc \in {"constructed", "done"} <=> ValidEditProbs(p)
            /\ pc = "failed" <=> err \in
                   {"ValueError: probability is out of range, must be between 0 and 1",
                    "ValueError: probabilities must sum up to 1.0"}
            /\ (\A i \in 1 .. 4 : 0 <= p[i] /\ p[i] <= ProbDen)
                   /\ p[1] + p[2] + p[3] + p[4] # ProbDen
                   => err = "ValueError: probabilities must sum up to 1.0"

\* C16: four equal probabilities in [0, 1] that sum to more than 1 have been
\* refused with the error of the wrong sum
EditEqualProbsRefused ==
    /\ pc = "failed"
    /\ func.name = "with_edit"
    /\ \A i \in 1 .. 4 : func.edit_ops_prob[i] = func.edit_ops_prob[1]
    /\ func.edit_ops_prob[1] > 0 /\ func.edit_ops_prob[1] < ProbDen
    /\ func.edit_ops_prob[1] * 4 > ProbDen
    /\ err = "ValueError: probabilities must sum up to 1.0"

\* the rows the strategy of with_missing_value matches
MissingValueMatches(strategy, s) ==
    CASE strategy = "all" -> TRUE
      [] strategy = "empty" -> s = << >>
      [] strategy = "blank" -> \A j \in DOMAIN s : s[j] = " "

\* C17: a function of with_missing_value returns the batch under its own index
\* with value in every row its strategy matches and the row's string in every
\* other row: all matches every row, empty the empty strings, blank the strings
\* of nothing but whitespace.
MissingValueOnMatchedRows ==
    ReturnsFrom("with_missing_value") =>
        /\ srs_out.index = srs_in0.index
        /\ \A p \in Rows(srs_in0) :
               srs_out.data[p] =
                   IF MissingValueMatches(func.strategy, srs_in0.data[p])
                   THEN func.value ELSE srs_in0.data[p]

\* C17: the strategy blank has replaced a string of whitespace and kept a string
\* that has whitespace before a letter
MissingValueBlankBesideLetter ==
    /\ ReturnsFrom("with_missing_value")
    /\ func.strategy = "blank"
    /\ func.value = <<"n">>
    /\ srs_in0.data = << <<" ", " ">>, <<" ", "a">> >>
    /\ srs_out.data = << <<"n">>, <<" ", "a">> >>

\* C18: a function of with_categorical_values returns, in every row that holds
\* one of the known categories, a known category other than the one it held, and
\* in every row that holds none of them the string it held.
CategoricalResamplesExactMatches ==
    ReturnsFrom("with_categorical_values") =>
        \A p \in Rows(srs_in0) :
            IF \E k \in DOMAIN func.unique_values :
                   StrEquals(srs_in0.data[p], func.unique_values[k])
            THEN /\ srs_out.data[p] \in Elems(func.unique_values)
                 /\ srs_out.data[p] # srs_in0.data[p]
            ELSE srs_out.data[p] = srs_in0.data[p]

\* the 1-based positions src is written at in s
OccurrencesOf(s, src) ==
    {i \in 1 .. (Len(s) - Len(src) + 1) : SubSeq(s, i, i + Len(src) - 1) = src}

\* s with the leftmost of the occurrences of src replaced by tgt
WithFirstReplaced(s, src, tgt) ==
    LET i == CHOOSE i \in OccurrencesOf(s, src) : \A j \in OccurrencesOf(s, src) : i <= j
    IN  SubSeq(s, 1, i - 1) \o tgt \o SubSeq(s, i + Len(src), Len(s))

\* C19: a function of with_replacement_table returns every string either as it
\* was or with the leftmost occurrence of one source of the table that it
\* contains replaced by a target the table gives for that source; a string that
\* contains no source of the table is returned as it was.
ReplacementOfFirstOccurrence ==
    ReturnsFrom("with_replacement_table") =>
        \A p \in Rows(srs_in0) :
            LET s == srs_in0.data[p]
                t == srs_out.data[p]
            IN  \/ t = s
                \/ \E r \in DOMAIN func.df :
                       /\ OccurrencesOf(s, func.df[r][1]) # {}
                       /\ t = WithFirstReplaced(s, func.df[r][1], func.df[r][2])

\* C19: of two occurrences of the source the left one has been replaced, beside a
\* string without the source
ReplacementLeftOfTwo ==
    /\ ReturnsFrom("with_replacement_table")
    /\ func.df = << << <<"a">>, <<"b">> >> >>
    /\ srs_in0.data = << <<"a", "a">>, <<"b">> >>
    /\ srs_out.data = << <<"b", "a">>, <<"b">> >>

\* C20: the sources a string contains have a probability of 1 / k each of being
\* the one replaced, k their number; the k probabilities add up to 1, so a
\* function of with_replacement_table returns every string that contains a
\* source of the table with one of the sources it contains replaced, and a
\* string that contains exactly one source with that source replaced.
ReplacementSharesAddUp ==
    ReturnsFrom("with_replacement_table") =>
        \A p \in Rows(srs_in0) :
            LET s == srs_in0.data[p]
                known == {r \in DOMAIN func.df : OccurrencesOf(s, func.df[r][1]) # {}}
            IN  known # {} =>
                    \E r \in known :
                        srs_out.data[p] =
                            WithFirstReplaced(s, func.df[r][1], func.df[r][2])

\* the character of s the draw k selects, for a string that has one
SelectedChar(s, k) == s[FloorMul(Len(s), k) + 1]

\* C21: a function of with_cldr_keymap_file built with a charset has candidates
\* only for characters of the charset and only characters of the charset as
\* candidates; it writes no character outside the charset into a string, and it
\* returns a string as it was when the character selected in it is outside the
\* charset.
TypoWithinCharset ==
    ReturnsFrom("with_cldr_keymap_file") /\ func.charset # NoCharset =>
        /\ \A c \in DOMAIN func.dict :
               func.dict[c] # << >> =>
                   c \in Elems(func.charset)
                       /\ Elems(func.dict[c]) \subseteq Elems(func.charset)
        /\ \A p \in Rows(srs_in0) :
               LET s == srs_in0.data[p]
                   t == srs_out.data[p]
               IN  /\ Len(t) = Len(s)
                   /\ \A j \in DiffPositions(s, t) : t[j] \in Elems(func.charset)
                   /\ s # << >>
                        /\ SelectedChar(s, func.arr_rng_vals[p]) \notin Elems(func.charset)
                        => t = s

\* C21: under a charset, a string whose selected character is on the keyboard
\* but outside the charset has come back as it was, beside a string that got a
\* character of the charset
TypoOutsideCharsetKept ==
    /\ ReturnsFrom("with_cldr_keymap_file")
    /\ func.charset = <<"a", "A">>
    /\ srs_in0.data = << <<"a", "b">>, <<"a">> >>
    /\ SelectedChar(srs_in0.data[1], func.arr_rng_vals[1]) = "b"
    /\ srs_out.data = << <<"a", "b">>, <<"A">> >>

(***************************************************************************)
(* Properties of corrupt_dataframe, of the behaviours of SpecDataFrame     *)
(***************************************************************************)
\* the values of the column of the table
ValuesIn(df, column) ==
    df.data[CHOOSE c \in DOMAIN df.columns : df.columns[c] = column]

\* what the corruptor makes of the value
CorruptedBy(corruptor, value) ==
    IF corruptor.name = "with_noop" THEN value ELSE corruptor.value

Unweighted(entry) == entry.kind \in {"single", "list"}

\* C22: an entry that is a corruption function or a list of n functions without
\* probabilities is never refused for its probabilities; every row of its column
\* is drawn one of the n functions (the one function, for a single one), and
\* when the call returns every row of the column of the last such entry holds
\* what the function drawn for it makes of the row of the input table.
UnweightedCoversEveryRow ==
    /\ pc = "done" /\ err # NoError /\ orch.entry <= Len(orch.dict)
           /\ Unweighted(orch.dict[orch.entry])
           => \A c \in DOMAIN df_in0.columns :
                  df_in0.columns[c] # orch.dict[orch.entry].column
    /\ pc = "corruptor" /\ Unweighted(orch.dict[orch.entry])
           => \A p \in DOMAIN df_in0.index :
                  orch.srs_corruptor_idx[p] \in DOMAIN orch.dict[orch.entry].fs
    /\ pc = "done" /\ orch.returned /\ Unweighted(orch.dict[Len(orch.dict)])
           => LET entry == orch.dict[Len(orch.dict)]
              IN  \A p \in DOMAIN df_in0.index :
                      ValuesIn(df_out, entry.column)[p] =
                          CorruptedBy(entry.fs[orch.srs_corruptor_idx[p]],
                                      ValuesIn(df_in0, entry.column)[p])

\* C22: of a list of two functions the second was drawn for the first row and the
\* first for the second row, and the table has been returned
UnweightedListBothDrawn ==
    /\ pc = "done" /\ orch.returned
    /\ orch.dict = <<List("foo", <<Noop, MissingAll>>)>>
    /\ orch.srs_corruptor_idx = <<2, 1>>
    /\ ValuesIn(df_in0, "foo") = << <<"a">>, <<"b">> >>
    /\ ValuesIn(df_out, "foo") = << <<"n">>, <<"b">> >>

\* the labels of the rows a corruptor was given
LabelsOf(srs) == {srs.index[q] : q \in DOMAIN srs.index}

\* the entry of the dictionary the column belongs to
EntryOf(column) == CHOOSE e \in DOMAIN orch.assigned : orch.assigned[e] = column

\* C23: in a call of corrupt_dataframe, the corruptors of a column are given
\* disjoint sets of rows; each is given the rows drawn for it and no others, with
\* the values these rows have in the input table; and a row of the column holds
\* what the corruptor drawn for it makes of its value in the input table once
\* that corruptor has been invoked, and that value until then.
PartitionByDrawnCorruptor ==
    pc \in {"column", "corruptor", "done"} /\ err = NoError =>
        /\ \A n, m \in DOMAIN orch.invoked :
               n # m /\ orch.invoked[n].column = orch.invoked[m].column
                   => LabelsOf(orch.invoked[n].srs) \cap LabelsOf(orch.invoked[m].srs) = {}
        /\ \A n \in DOMAIN orch.invoked :
               LET v == orch.invoked[n]
                   drawn == orch.drawn[EntryOf(v.column)]
               IN  /\ LabelsOf(v.srs) =
                          {df_in0.index[p] : p \in {r \in DOMAIN drawn : drawn[r] = v.i}}
                   /\ \A q \in DOMAIN v.srs.index, p \in DOMAIN df_in0.index :
                          df_in0.index[p] = v.srs.index[q]
                              => v.srs.data[q] = ValuesIn(df_in0, v.column)[p]
        /\ \A e \in DOMAIN orch.assigned, p \in DOMAIN df_in0.index :
               LET column == orch.assigned[e]
                   i == orch.drawn[e][p]
                   invoked == \E n \in DOMAIN orch.invoked :
                                  orch.invoked[n].column = column /\ orch.invoked[n].i = i
               IN  ValuesIn(df_out, column)[p] =
                       IF invoked
                       THEN CorruptedBy(orch.dict[e].fs[i], ValuesIn(df_in0, column)[p])
                       ELSE ValuesIn(df_in0, column)[p]

\* C23: of two weighted corruptors the first was drawn for the first row and the
\* second for the second row; both have been invoked and the table has been
\* returned
PartitionBothInvoked ==
    /\ pc = "done" /\ orch.returned
    /\ orch.dict = <<Tuples("foo", <<1, ProbDen - 1>>, <<Noop, MissingAll>>)>>
    /\ orch.drawn = << <<1, 2>> >>
    /\ Len(orch.invoked) = 2
    /\ ValuesIn(df_in0, "foo") = << <<"a">>, <<"b">> >>
    /\ ValuesIn(df_out, "foo") = << <<"a">>, <<"n">> >>

(***************************************************************************)
(* Further properties of the corruption functions, of the behaviours of    *)
(* Spec                                                                    *)
(***************************************************************************)
\* t is what the operation op can make of s with the characters of charset
EditedBy(op, charset, s, t) ==
    CASE op = "ins" ->
            \E i \in 0 .. Len(s), c \in Elems(charset) : t = WithInserted(s, i, c)
      [] op = "del" ->
            IF s = << >> THEN t = s
            ELSE \E i \in 0 .. (Len(s) - 1) : t = WithoutChar(s, i)
      [] op = "sub" ->
            IF s = << >> THEN t = s
            ELSE \E j \in DOMAIN s, c \in Elems(charset) : t = [s EXCEPT ![j] = c]
      [] op = "trs" ->
            IF Len(s) < 2 THEN t = s
            ELSE \E j \in 1 .. (Len(s) - 1) : t = WithSwapped(s, j)
      [] OTHER -> FALSE

\* C24: a function of with_edit returns the batch under its own index; every row
\* has one of the four operations drawn for it and holds what that operation, and
\* no other, makes of the row's string, so that its length is that of the input
\* string or one more or one less.
EditAppliesDrawnOperation ==
    (pc = "done" /\ func.name = "with_edit" /\ err = NoError) =>
        /\ srs_out.index = srs_in0.index
        /\ \A p \in Rows(srs_in0) :
               LET s == srs_in0.data[p]
                   t == srs_out.data[p]
               IN  /\ EditedBy(func.str_in_edit_ops[p], func.charset, s, t)
                   /\ Len(t) - Len(s) \in {0 - 1, 0, 1}

\* C24: of two equal strings of a batch one had a character deleted and the other
\* one inserted
EditDeleteBesideInsert ==
    /\ pc = "done" /\ func.name = "with_edit" /\ err = NoError
    /\ func.str_in_edit_ops = <<"del", "ins">>
    /\ srs_in0.data = << <<"a", "b">>, <<"a", "b">> >>
    /\ srs_out.data = << <<"b">>, <<"a", "b", "x">> >>

\* the flag is among the flags
HasFlag(flag, flags) == \E i \in DOMAIN flags : flags[i] = flag

\* some occurrence of the pattern lies at the start of s, at its end, or with a
\* character at least before and after it
OccursUnder(flag, s, pattern) ==
    CASE flag = "^" -> 1 \in OccurrencesOf(s, pattern)
      [] flag = "$" -> Len(s) - Len(pattern) + 1 \in OccurrencesOf(s, pattern)
      [] flag = "_" -> \E i \in OccurrencesOf(s, pattern) :
                           i > 1 /\ i + Len(pattern) - 1 < Len(s)

\* C25: in a call of the phonetic function, the flags recorded for a rule and a
\* row are the flags of the rule under which some occurrence of the rule's
\* pattern lies in the row's string: at its start for the start flag, at its end
\* for the end flag, strictly between the two for the middle flag.
PhoneticFlagsByOccurrence ==
    InPhonetic =>
        \A j \in DOMAIN func.rules, p \in Rows(srs_in0) :
            \A flag \in {"^", "$", "_"} :
                HasFlag(flag, ph.rule_to_flag_dict[j][p])
                    <=> /\ HasFlag(flag, func.rules[j].flags)
                        /\ OccursUnder(flag, srs_in0.data[p], func.rules[j].pattern)

\* k: the rules that recorded a flag for the row
EligibleRules(p) == {j \in DOMAIN ph.rule_to_flag_dict : ph.rule_to_flag_dict[j][p] # << >>}

\* C26: in a call of the phonetic function, a row is a hit for a rule exactly
\* when the rule recorded a flag for it and its draw r is below 1 / k, k the
\* number of rules that recorded a flag for the row; so a row with k = 1 is a hit
\* for its rule whatever the draw, and a row with k = 0 is no hit for any rule
\* and holds its input string throughout the call.
PhoneticThresholdOneOverK ==
    InPhonetic =>
        /\ \A p \in DOMAIN ph.arr_rand_vals :
               LET k == Cardinality(EligibleRules(p))
               IN  /\ ph.mask_candidate_rows[p]
                        <=> /\ ph.rule \in EligibleRules(p)
                            /\ ph.arr_rand_vals[p] * k < RngDen
                   /\ k = 1 /\ ph.rule \in EligibleRules(p) => ph.mask_candidate_rows[p]
        /\ \A p \in Rows(srs_in0) :
               EligibleRules(p) = {}
                   => /\ ~ph.mask_candidate_rows[p]
                      /\ ph.writes[p] = 0
                      /\ ph.srs_str_out.data[p] = srs_in0.data[p]

\* C26: a row with two eligible rules is no hit for the first, its draw being
\* above one half, beside a row with one eligible rule that is a hit with the
\* highest draw
PhoneticHalfMissedOneHit ==
    /\ pc = "phonetic_flag" /\ InPhonetic
    /\ ph.rule = 1
    /\ srs_in0.data = << <<"a", "b", "a">>, <<"a">> >>
    /\ Cardinality(EligibleRules(1)) = 2 /\ Cardinality(EligibleRules(2)) = 1
    /\ ph.arr_rand_vals = <<RngDen - 1, RngDen - 1>>
    /\ ph.mask_candidate_rows = <<FALSE, TRUE>>

\* t is s with the occurrence of pattern at the 1-based position i replaced
ReplacedAt(s, t, pattern, replacement, i) ==
    /\ i \in OccurrencesOf(s, pattern)
    /\ t = SubSeq(s, 1, i - 1) \o replacement \o SubSeq(s, i + Len(pattern), Len(s))

\* t is s with the pattern replaced where the flag says
ReplacedUnder(flag, s, t, pattern, replacement) ==
    CASE flag = "^" -> ReplacedAt(s, t, pattern, replacement, 1)
      [] flag = "$" -> ReplacedAt(s, t, pattern, replacement, Len(s) - Len(pattern) + 1)
      [] flag = "_" -> \E i \in 2 .. (Len(s) - Len(pattern)) :
                           ReplacedAt(s, t, pattern, replacement, i)
      [] OTHER -> FALSE

\* C27: a step of the phonetic function that changes a string does so for a flag
\* of the rule at hand; under the start flag the string changes by the
\* replacement of the pattern it starts with, under the end flag by that of the
\* pattern it ends with, under the middle flag by that of one occurrence that has
\* a character at least before and after it; all other text stays.
PhoneticReplacesWhereFlagSays ==
    [][pc = "phonetic_flag" =>
           \A p \in Rows(srs_in0) :
               ph'.srs_str_out.data[p] # ph.srs_str_out.data[p]
                   => /\ HasFlag(Head(ph.arr_rand_flags), func.rules[ph.rule].flags)
                      /\ ReplacedUnder(Head(ph.arr_rand_flags),
                                       ph.srs_str_out.data[p], ph'.srs_str_out.data[p],
                                       func.rules[ph.rule].pattern,
                                       func.rules[ph.rule].replacement)]_vars

\* C27: a pattern between two characters has been replaced, and in another row a
\* pattern at the end of a string that holds it twice
PhoneticMiddleAndEndReplaced ==
    /\ InPhonetic
    /\ srs_in0.data = << <<"b", "a", "b">>, <<"b", "a", "a">> >>
    /\ ph.srs_str_out.data = << <<"b", "b", "b">>, <<"b", "a", "b">> >>

SelectedIndex(s, k) ==
    CHOOSE i \in 0 .. (Len(s) - 1) :
        i * RngDen <= Len(s) * k /\ Len(s) * k < (i + 1) * RngDen

\* C29: a function of with_cldr_keymap_file returns the empty string as it is,
\* and for a string that is not empty it selects one index from 0 to the length
\* less 1 and returns a string of the same length that has the characters of the
\* input at every other index.
TypoAtSelectedIndexOnly ==
    ReturnsFrom("with_cldr_keymap_file") =>
        \A p \in Rows(srs_in0) :
            LET s == srs_in0.data[p]
                t == srs_out.data[p]
                k == func.arr_rng_vals[p]
            IN  IF s = << >> THEN t = s
                ELSE /\ \E i \in 0 .. (Len(s) - 1) :
                            i * RngDen <= Len(s) * k /\ Len(s) * k < (i + 1) * RngDen
                     /\ Len(t) = Len(s)
                     /\ \A j \in DOMAIN s : j # SelectedIndex(s, k) + 1 => t[j] = s[j]

\* C29: the last character of a string was selected and replaced, in a batch that
\* holds the empty string too
TypoAtLastIndexBesideEmpty ==
    /\ ReturnsFrom("with_cldr_keymap_file")
    /\ srs_in0.data = << << >>, <<"a", "b">> >>
    /\ SelectedIndex(srs_in0.data[2], func.arr_rng_vals[2]) = 1
    /\ srs_out.data = << << >>, <<"a", "B">> >>

\* C30: in the loop over the flags of a rule, a row that is a hit for the rule
\* and was not modified before is modified in one pass, for a flag that the rule
\* recorded for the row; when the last flag of the rule has been passed every
\* hit of the rule has been modified.
PhoneticHitIsModified ==
    [][pc = "phonetic_flag" =>
           \A p \in Rows(srs_in0) :
               ph.mask_candidate_rows[p]
                   => /\ ~ph.mask_modified_rows[p] /\ ph'.mask_modified_rows[p]
                          => HasFlag(Head(ph.arr_rand_flags),
                                     ph.rule_to_flag_dict[ph.rule][p])
                      /\ pc' = "phonetic_rule" => ph'.mask_modified_rows[p]]_vars

====
